---------------------------- MODULE Spec2Model ----------------------------
(***************************************************************************)
(* Model of the sequence value store of src/box/sequence.c: the hash index *)
(* of (id, value) records and the operations sequence_reset, sequence_set, *)
(* sequence_update and sequence_next on it.                                *)
(*                                                                         *)
(* int64_t is modelled as a two's complement integer of IntBits bits, so   *)
(* that INT64_MIN and INT64_MAX are values TLC can enumerate; the          *)
(* arithmetic guards of sequence_next are kept as the code writes them.    *)
(***************************************************************************)
EXTENDS Integers, Sequences, FiniteSets, TLC

\* Width of the modelled int64_t.
IntBits == 3

\* Number of sessions (fibers) that call next; a call runs to completion
\* before another session proceeds (sequence_next has no yield point).
NumSessions == 2

\* Sequence definitions take their start, min, max and step among the values
\* of magnitude at most DefSpan and the two ends of the integer range.
DefSpan == 1

INT64_MAX == 2^(IntBits - 1) - 1
INT64_MIN == -(2^(IntBits - 1))
Int64 == INT64_MIN..INT64_MAX

Sessions == 1..NumSessions

\* struct sequence_def as the store reads it: start, min, max, step, cycle.
\* The schema layer guarantees step # 0 and min <= start <= max.
DefVals == { v \in Int64 : v \in {INT64_MIN, INT64_MAX} \/ (-DefSpan <= v /\ v <= DefSpan) }

SequenceDefs ==
    { d \in [start : DefVals, min : DefVals, max : DefVals,
             step : DefVals \ {0}, cycle : BOOLEAN] :
        d.min <= d.start /\ d.start <= d.max }

VARIABLES
    defs,                  \* id -> sequence_def of every sequence of the schema
    sequence_data_index,   \* the hash index: a set of struct sequence_data
    last,                  \* the most recent call, its arguments and its outcome
    history,               \* id -> what next has returned since the record was absent
    issued,                \* id -> every value next has returned, in the order of the calls
    checked,               \* an access check: its caller, its sequence and its outcome
    encoded,               \* a struct sequence_data and the tuple encoded from it
    snapshot,              \* the snapshot iterator and what it has returned
    btree,                 \* handle -> struct Btree
    cursors,               \* cursor -> struct BtCursor
    db,                    \* the connection (struct sqlite3) and the build it runs
    tarantool,             \* the storage behind the cursors: rows of each table
    sql_last               \* the most recent call on a handle or a cursor

vars == <<defs, sequence_data_index, last, history, issued, checked, encoded,
          snapshot, btree, cursors, db, tarantool, sql_last>>

Ids == DOMAIN defs

-----------------------------------------------------------------------------
(* The hash index (salad/light.h), instantiated at sequence.c:77-83.       *)

\* "Not found" position.
light_sequence_end == {}

\* Position of the record with this key: the set of matching records.
light_sequence_find_key(index, key) == { d \in index : d.id = key }

light_sequence_get(pos) == CHOOSE d \in pos : TRUE

\* Replace the record equal (by id) to data; light_sequence_end if there is none.
light_sequence_replace(index, data) ==
    IF light_sequence_find_key(index, data.id) = light_sequence_end
    THEN [pos |-> light_sequence_end, index |-> index]
    ELSE [pos |-> {data},
          index |-> (index \ light_sequence_find_key(index, data.id)) \cup {data}]

\* Insert a record; fails with light_sequence_end when the index cannot grow.
light_sequence_insert(index, data, mem_ok) ==
    IF mem_ok
    THEN [pos |-> {data}, index |-> index \cup {data}]
    ELSE [pos |-> light_sequence_end, index |-> index]

light_sequence_delete(index, pos) == index \ pos

-----------------------------------------------------------------------------
(* What a call leaves behind for its caller: the return code, *result, the *)
(* error set in the diagnostics area, and the path the call took.          *)

Call(op, s, id, arg, rc, result, err, path, ub) ==
    [op |-> op, session |-> s, id |-> id, arg |-> arg, rc |-> rc,
     result |-> result, err |-> err, path |-> path, ub |-> ub]

\* The stored value of a sequence in an index, as a set: empty when absent.
Stored(index, id) == { d.value : d \in light_sequence_find_key(index, id) }

\* What next has returned to its callers since the record of a sequence was
\* last absent, kept while only next is called, up to the first wrap.
\* callers are the sessions these values went to, and origin is what left the
\* record absent: the construction of the store or a reset.
FreshHistory(origin) ==
    [pure |-> TRUE, wrapped |-> FALSE, returned |-> <<>>, callers |-> {},
     origin |-> origin]
NoHistory ==
    [pure |-> FALSE, wrapped |-> FALSE, returned |-> <<>>, callers |-> {},
     origin |-> "none"]

Returned(h, s, out) ==
    IF h.pure /\ ~h.wrapped /\ out.rc = 0
    THEN [h EXCEPT !.returned = Append(@, out.value),
                   !.wrapped = (out.path = "cycle"),
                   !.callers = @ \cup {s}]
    ELSE h

-----------------------------------------------------------------------------
(* sequence_reset, sequence.c:129-137                                      *)

\* sequence_reset that finds the record and leaves it in the index.
sequence_reset_no_delete(id) ==
    LET pos == light_sequence_find_key(sequence_data_index, id)
    IN  /\ sequence_data_index' = sequence_data_index
        /\ last' = Call("reset", 0, id, 0, 0, 0, "none",
                        IF pos # light_sequence_end THEN "delete" ELSE "absent", FALSE)
        /\ history' = [history EXCEPT ![id] = FreshHistory("reset")]
        /\ UNCHANGED defs

\* sequence_reset that empties the index instead of deleting one record.
sequence_reset_whole_index(id) ==
    LET pos == light_sequence_find_key(sequence_data_index, id)
    IN  /\ sequence_data_index' =
              IF pos # light_sequence_end THEN {} ELSE sequence_data_index
        /\ last' = Call("reset", 0, id, 0, 0, 0, "none",
                        IF pos # light_sequence_end THEN "delete" ELSE "absent", FALSE)
        /\ history' = [history EXCEPT ![id] = FreshHistory("reset")]
        /\ UNCHANGED defs

sequence_reset(id) ==
    LET pos == light_sequence_find_key(sequence_data_index, id)
    IN  /\ sequence_data_index' =
              IF pos # light_sequence_end
              THEN light_sequence_delete(sequence_data_index, pos)
              ELSE sequence_data_index
        /\ last' = Call("reset", 0, id, 0, 0, 0, "none",
                        IF pos # light_sequence_end THEN "delete" ELSE "absent", FALSE)
        /\ history' = [history EXCEPT ![id] = FreshHistory("reset")]
        /\ UNCHANGED defs

(* sequence_set, sequence.c:139-154                                        *)

\* sequence_set that inserts without trying to replace first.
sequence_set_insert_only(id, value, mem_ok) ==
    LET new_data == [id |-> id, value |-> value]
        pos == light_sequence_find_key(sequence_data_index, id)
        ins == light_sequence_insert(sequence_data_index, new_data, mem_ok)
    IN  /\ IF ins.pos # light_sequence_end
           THEN /\ sequence_data_index' = ins.index
                /\ last' = Call("set", 0, id, value, 0, 0, "none",
                                IF pos # light_sequence_end THEN "replace" ELSE "insert",
                                FALSE)
           ELSE /\ sequence_data_index' = sequence_data_index
                /\ last' = Call("set", 0, id, value, -1, 0, "OutOfMemory", "oom", FALSE)
        /\ history' = [history EXCEPT ![id] = NoHistory]
        /\ UNCHANGED defs

sequence_set(id, value, mem_ok) ==
    LET new_data == [id |-> id, value |-> value]
        rep == light_sequence_replace(sequence_data_index, new_data)
        ins == light_sequence_insert(sequence_data_index, new_data, mem_ok)
    IN  /\ IF rep.pos # light_sequence_end
           THEN /\ sequence_data_index' = rep.index
                /\ last' = Call("set", 0, id, value, 0, 0, "none", "replace", FALSE)
           ELSE IF ins.pos # light_sequence_end
           THEN /\ sequence_data_index' = ins.index
                /\ last' = Call("set", 0, id, value, 0, 0, "none", "insert", FALSE)
           ELSE /\ sequence_data_index' = sequence_data_index
                /\ last' = Call("set", 0, id, value, -1, 0, "OutOfMemory", "oom", FALSE)
        /\ history' = [history EXCEPT ![id] = NoHistory]
        /\ UNCHANGED defs

(* sequence_update, sequence.c:156-179                                     *)

\* sequence_update that replaces whatever the direction of the sequence.
sequence_update_any_direction(id, value, mem_ok) ==
    LET pos == light_sequence_find_key(sequence_data_index, id)
        new_data == [id |-> id, value |-> value]
        rep == light_sequence_replace(sequence_data_index, new_data)
        ins == light_sequence_insert(sequence_data_index, new_data, mem_ok)
    IN  /\ IF pos # light_sequence_end
           THEN /\ sequence_data_index' = rep.index
                /\ last' = Call("update", 0, id, value, 0, 0, "none", "replace", FALSE)
           ELSE IF ins.pos = light_sequence_end
           THEN /\ sequence_data_index' = sequence_data_index
                /\ last' = Call("update", 0, id, value, -1, 0, "OutOfMemory",
                                "oom", FALSE)
           ELSE /\ sequence_data_index' = ins.index
                /\ last' = Call("update", 0, id, value, 0, 0, "none", "insert", FALSE)
        /\ history' = [history EXCEPT ![id] = NoHistory]
        /\ UNCHANGED defs

\* sequence_update whose "value is not further" case falls through to the
\* failure return of the insert branch.
sequence_update_keep_fails(id, value, mem_ok) ==
    LET def == defs[id]
        pos == light_sequence_find_key(sequence_data_index, id)
        new_data == [id |-> id, value |-> value]
        data == light_sequence_get(pos)
        rep == light_sequence_replace(sequence_data_index, new_data)
        ins == light_sequence_insert(sequence_data_index, new_data, mem_ok)
    IN  /\ IF pos # light_sequence_end
           THEN IF \/ (def.step > 0 /\ value > data.value)
                   \/ (def.step < 0 /\ value < data.value)
                THEN /\ sequence_data_index' = rep.index
                     /\ last' = Call("update", 0, id, value, 0, 0, "none",
                                     "replace", FALSE)
                ELSE /\ sequence_data_index' = sequence_data_index
                     /\ last' = Call("update", 0, id, value, -1, 0, "OutOfMemory",
                                     "keep", FALSE)
           ELSE IF ins.pos = light_sequence_end
           THEN /\ sequence_data_index' = sequence_data_index
                /\ last' = Call("update", 0, id, value, -1, 0, "OutOfMemory",
                                "oom", FALSE)
           ELSE /\ sequence_data_index' = ins.index
                /\ last' = Call("update", 0, id, value, 0, 0, "none", "insert", FALSE)
        /\ history' = [history EXCEPT ![id] = NoHistory]
        /\ UNCHANGED defs

sequence_update(id, value, mem_ok) ==
    LET def == defs[id]
        pos == light_sequence_find_key(sequence_data_index, id)
        new_data == [id |-> id, value |-> value]
        data == light_sequence_get(pos)
        rep == light_sequence_replace(sequence_data_index, new_data)
        ins == light_sequence_insert(sequence_data_index, new_data, mem_ok)
    IN  /\ IF pos # light_sequence_end
           THEN IF \/ (def.step > 0 /\ value > data.value)
                   \/ (def.step < 0 /\ value < data.value)
                THEN /\ sequence_data_index' = rep.index
                     /\ last' = Call("update", 0, id, value, 0, 0, "none",
                                     "replace", FALSE)
                ELSE /\ sequence_data_index' = sequence_data_index
                     /\ last' = Call("update", 0, id, value, 0, 0, "none",
                                     "keep", FALSE)
           ELSE IF ins.pos = light_sequence_end
           THEN /\ sequence_data_index' = sequence_data_index
                /\ last' = Call("update", 0, id, value, -1, 0, "OutOfMemory",
                                "oom", FALSE)
           ELSE /\ sequence_data_index' = ins.index
                /\ last' = Call("update", 0, id, value, 0, 0, "none", "insert", FALSE)
        /\ history' = [history EXCEPT ![id] = NoHistory]
        /\ UNCHANGED defs

-----------------------------------------------------------------------------
(* sequence_next, sequence.c:181-239                                       *)

\* value + step on int64_t.  Signed overflow is undefined: the build may
\* leave any value, and ub records that the addition overflowed.
Add64(a, b) ==
    IF a + b \in Int64
    THEN { [sum |-> a + b, ub |-> FALSE] }
    ELSE { [sum |-> x, ub |-> TRUE] : x \in Int64 }

\* Label done, sequence.c:223-231.  The assertion at line 224 is compiled out
\* of a release build; assert_ok records whether it holds.
next_done(def, value, path, ub) ==
    [rc |-> 0, value |-> value, err |-> "none", path |-> path, ub |-> ub,
     assert_ok |-> (value >= def.min /\ value <= def.max)]

\* Label overflow without the test of def->cycle: every sequence wraps.
next_overflow_always_cycles(def, ub) ==
    next_done(def, IF def.step > 0 THEN def.min ELSE def.max, "cycle", ub)

\* Label overflow wrapping to def->start instead of the bound.
next_overflow_to_start(def, ub) ==
    IF ~def.cycle
    THEN [rc |-> -1, value |-> 0, err |-> "SequenceOverflow", path |-> "overflow",
          ub |-> ub, assert_ok |-> TRUE]
    ELSE next_done(def, def.start, "cycle", ub)

\* Label overflow, sequence.c:232-238.
next_overflow(def, ub) ==
    IF ~def.cycle
    THEN [rc |-> -1, value |-> 0, err |-> "SequenceOverflow", path |-> "overflow",
          ub |-> ub, assert_ok |-> TRUE]
    ELSE next_done(def, IF def.step > 0 THEN def.min ELSE def.max, "cycle", ub)

\* next_step_up without the guard against INT64_MAX before the addition.
next_step_up_no_guard(def, value) ==
    IF value < def.min
    THEN { next_done(def, def.min, "clamp", FALSE) }
    ELSE { IF a.sum > def.max
           THEN next_overflow(def, a.ub)
           ELSE next_done(def, a.sum, "add", a.ub) : a \in Add64(value, def.step) }

\* next_step_up without the comparison against max.
next_step_up_no_max(def, value) ==
    IF value < def.min
    THEN { next_done(def, def.min, "clamp", FALSE) }
    ELSE IF value >= 0 /\ def.step > INT64_MAX - value
    THEN { next_overflow(def, FALSE) }
    ELSE { next_done(def, a.sum, "add", a.ub) : a \in Add64(value, def.step) }

\* next_step_up without the test of the stored value against min.
next_step_up_no_clamp(def, value) ==
    IF value >= 0 /\ def.step > INT64_MAX - value
    THEN { next_overflow(def, FALSE) }
    ELSE { IF a.sum > def.max
           THEN next_overflow(def, a.ub)
           ELSE next_done(def, a.sum, "add", a.ub) : a \in Add64(value, def.step) }

\* The ascending step from a stored value, sequence.c:201-210: the outcomes
\* of the call.
next_step_up(def, value) ==
    IF value < def.min
    THEN { next_done(def, def.min, "clamp", FALSE) }
    ELSE IF value >= 0 /\ def.step > INT64_MAX - value
    THEN { next_overflow(def, FALSE) }
    ELSE { IF a.sum > def.max
           THEN next_overflow(def, a.ub)
           ELSE next_done(def, a.sum, "add", a.ub) : a \in Add64(value, def.step) }

\* next_step_down comparing against min with <= instead of <.
next_step_down_off_by_one(def, value) ==
    IF value > def.max
    THEN { next_done(def, def.max, "clamp", FALSE) }
    ELSE IF value < 0 /\ def.step < INT64_MIN - value
    THEN { next_overflow(def, FALSE) }
    ELSE { IF a.sum <= def.min
           THEN next_overflow(def, a.ub)
           ELSE next_done(def, a.sum, "add", a.ub) : a \in Add64(value, def.step) }

\* The descending step, sequence.c:211-222.
next_step_down(def, value) ==
    IF value > def.max
    THEN { next_done(def, def.max, "clamp", FALSE) }
    ELSE IF value < 0 /\ def.step < INT64_MIN - value
    THEN { next_overflow(def, FALSE) }
    ELSE { IF a.sum < def.min
           THEN next_overflow(def, a.ub)
           ELSE next_done(def, a.sum, "add", a.ub) : a \in Add64(value, def.step) }

next_step(def, value) ==
    IF def.step > 0 THEN next_step_up(def, value) ELSE next_step_down(def, value)

\* sequence_next that returns the new value without storing it.
sequence_next_no_store(s, id, mem_ok) ==
    LET def == defs[id]
        pos == light_sequence_find_key(sequence_data_index, id)
        first == [id |-> id, value |-> def.start]
        ins == light_sequence_insert(sequence_data_index, first, mem_ok)
    IN  /\ IF pos = light_sequence_end
           THEN IF ins.pos = light_sequence_end
                THEN /\ sequence_data_index' = sequence_data_index
                     /\ last' = Call("next", s, id, 0, -1, 0, "OutOfMemory", "oom", FALSE)
                     /\ history' = history
                ELSE /\ sequence_data_index' = ins.index
                     /\ last' = Call("next", s, id, 0, 0, def.start, "none", "first", FALSE)
                     /\ history' = [history EXCEPT ![id] =
                           Returned(@, s, next_done(def, def.start, "first", FALSE))]
           ELSE \E out \in next_step(def, light_sequence_get(pos).value) :
                   /\ sequence_data_index' = sequence_data_index
                   /\ last' = Call("next", s, id, 0, out.rc, out.value, out.err,
                                   out.path, out.ub)
                   /\ history' = [history EXCEPT ![id] = Returned(@, s, out)]
        /\ UNCHANGED defs

sequence_next(s, id, mem_ok) ==
    LET def == defs[id]
        pos == light_sequence_find_key(sequence_data_index, id)
        first == [id |-> id, value |-> def.start]
        ins == light_sequence_insert(sequence_data_index, first, mem_ok)
    IN  /\ IF pos = light_sequence_end
           THEN IF ins.pos = light_sequence_end
                THEN /\ sequence_data_index' = sequence_data_index
                     /\ last' = Call("next", s, id, 0, -1, 0, "OutOfMemory", "oom", FALSE)
                     /\ history' = history
                ELSE /\ sequence_data_index' = ins.index
                     /\ last' = Call("next", s, id, 0, 0, def.start, "none", "first", FALSE)
                     /\ history' = [history EXCEPT ![id] =
                           Returned(@, s, next_done(def, def.start, "first", FALSE))]
           ELSE \E out \in next_step(def, light_sequence_get(pos).value) :
                   /\ sequence_data_index' =
                         IF out.rc = 0
                         THEN light_sequence_replace(sequence_data_index,
                                 [id |-> id, value |-> out.value]).index
                         ELSE sequence_data_index
                   /\ last' = Call("next", s, id, 0, out.rc, out.value, out.err,
                                   out.path, out.ub)
                   /\ history' = [history EXCEPT ![id] = Returned(@, s, out)]
        /\ UNCHANGED defs

-----------------------------------------------------------------------------
\* Whether an insert can happen in this call: only then does the state of the
\* extent pool matter.
MemStates(id) ==
    IF light_sequence_find_key(sequence_data_index, id) = light_sequence_end
    THEN BOOLEAN
    ELSE {TRUE}

\* The parts of the state outside the sequence value store, while nothing
\* runs there.
NoCheck == [done |-> FALSE]
NoTuple == [done |-> FALSE]
NoSnapshot == [open |-> FALSE]
sqlVars == <<btree, cursors, db, tarantool, sql_last>>
SqlIdle ==
    /\ btree = <<>>
    /\ cursors = <<>>
    /\ db = [open |-> FALSE]
    /\ tarantool = [open |-> FALSE]
    /\ sql_last = [op |-> "none"]
OutsideStore == <<issued, checked, encoded, snapshot, sqlVars>>
NoneIssued == <<>>
OutsideStoreIdle ==
    /\ issued = NoneIssued
    /\ checked = NoCheck /\ encoded = NoTuple /\ snapshot = NoSnapshot /\ SqlIdle

Init ==
    /\ defs \in [{1} -> SequenceDefs]
    /\ sequence_data_index = {}
    /\ last = Call("init", 0, 0, 0, 0, 0, "none", "none", FALSE)
    /\ history = [id \in DOMAIN defs |-> FreshHistory("init")]
    /\ OutsideStoreIdle

Next ==
    \/ \E id \in Ids : sequence_reset(id) /\ UNCHANGED OutsideStore
    \/ \E id \in Ids, value \in Int64 :
          \E mem_ok \in MemStates(id) :
             sequence_set(id, value, mem_ok) /\ UNCHANGED OutsideStore
    \/ \E id \in Ids, value \in Int64 :
          \E mem_ok \in MemStates(id) :
             sequence_update(id, value, mem_ok) /\ UNCHANGED OutsideStore
    \/ \E s \in Sessions, id \in Ids :
          \E mem_ok \in MemStates(id) :
             sequence_next(s, id, mem_ok) /\ UNCHANGED OutsideStore

Spec == Init /\ [][Next]_vars

-----------------------------------------------------------------------------
(* Properties of the sequence value store.                                 *)

\* The stored value of a sequence in the current index.
Rec(id) == Stored(sequence_data_index, id)

\* The values next returned before the first wrap.
BeforeWrap(h) == IF h.wrapped THEN Len(h.returned) - 1 ELSE Len(h.returned)

\* C1: with step > 0 and min <= start <= max, from no record and calling only
\* next, the returned values are strictly increasing and lie in [min, max]
\* until the first call whose step would pass max; with cycle that call
\* returns min (and it does not fail).
C1_AscendingNext ==
    \A id \in Ids :
        LET def == defs[id]
            h == history[id]
            r == h.returned
            n == Len(r)
            k == BeforeWrap(h)
        IN  (def.step > 0 /\ h.pure) =>
               /\ (n = 0) <=> (Rec(id) = {})
               /\ \A i \in 1..k : r[i] >= def.min /\ r[i] <= def.max
               /\ \A i \in 1..(k - 1) : r[i] < r[i + 1] /\ r[i] + def.step <= def.max
               /\ h.wrapped => /\ def.cycle
                               /\ r[k] + def.step > def.max
                               /\ r[n] = def.min
               /\ (~h.wrapped /\ n > 0) => Rec(id) = {r[n]}
               /\ (last.op = "next" /\ last.id = id /\ last.err = "SequenceOverflow")
                     => ~def.cycle /\ n > 0 /\ r[n] + def.step > def.max

\* An ascending cycling sequence has been driven by next alone past its max.
C1_Witness ==
    \E id \in Ids :
        /\ defs[id].step > 0 /\ defs[id].cycle
        /\ history[id].pure /\ history[id].wrapped
        /\ Len(history[id].returned) >= 4

\* C2: with step < 0 and min <= start <= max, from no record and calling only
\* next, the returned values are strictly decreasing and lie in [min, max]
\* until the first call whose step would pass min; with cycle that call
\* returns max.
C2_DescendingNext ==
    \A id \in Ids :
        LET def == defs[id]
            h == history[id]
            r == h.returned
            n == Len(r)
            k == BeforeWrap(h)
        IN  (def.step < 0 /\ h.pure) =>
               /\ (n = 0) <=> (Rec(id) = {})
               /\ \A i \in 1..k : r[i] >= def.min /\ r[i] <= def.max
               /\ \A i \in 1..(k - 1) : r[i] > r[i + 1] /\ r[i] + def.step >= def.min
               /\ h.wrapped => /\ def.cycle
                               /\ r[k] + def.step < def.min
                               /\ r[n] = def.max
               /\ (~h.wrapped /\ n > 0) => Rec(id) = {r[n]}
               /\ (last.op = "next" /\ last.id = id /\ last.err = "SequenceOverflow")
                     => ~def.cycle /\ n > 0 /\ r[n] + def.step < def.min

\* A descending cycling sequence has been driven by next alone past its min.
C2_Witness ==
    \E id \in Ids :
        /\ defs[id].step < 0 /\ defs[id].cycle
        /\ history[id].pure /\ history[id].wrapped
        /\ Len(history[id].returned) >= 4

\* The stored value after the step being taken.
RecAfter(id) == Stored(sequence_data_index', id)

\* The step being taken is a call of next on this sequence.
NextCalled(id) == last'.op = "next" /\ last'.id = id

\* The overflow condition as arithmetic on the stored value: adding step
\* would pass max (ascending) or min (descending).
WouldOverflow(def, v) ==
    IF def.step > 0 THEN v + def.step > def.max ELSE v + def.step < def.min

\* The stored value lies on the origin side of the range.
BehindOrigin(def, v) ==
    IF def.step > 0 THEN v < def.min ELSE v > def.max

\* The bound a cycling sequence wraps to.
WrapBound(def) == IF def.step > 0 THEN def.min ELSE def.max

ExampleDef(cycle) ==
    [start |-> 1, min |-> 1, max |-> 3, step |-> 1, cycle |-> cycle]

\* C3 as stated: whenever value + step would pass the bound and cycle is
\* false, next fails with SequenceOverflow and the stored value is unchanged.
C3_Original ==
    [][\A id \in Ids : \A v \in Rec(id) :
          (NextCalled(id) /\ WouldOverflow(defs[id], v) /\ ~defs[id].cycle)
             => /\ last'.rc = -1
                /\ last'.err = "SequenceOverflow"
                /\ sequence_data_index' = sequence_data_index]_vars

\* C3, amended: when the stored value is not on the origin side of the range
\* (ascending: value >= min; descending: value <= max), value + step would
\* pass the bound and cycle is false, next fails with SequenceOverflow and
\* the stored value is exactly its pre-call value.
C3_OverflowFails ==
    [][\A id \in Ids : \A v \in Rec(id) :
          (/\ NextCalled(id)
           /\ ~BehindOrigin(defs[id], v)
           /\ WouldOverflow(defs[id], v)
           /\ ~defs[id].cycle)
             => /\ last'.rc = -1
                /\ last'.err = "SequenceOverflow"
                /\ sequence_data_index' = sequence_data_index
                /\ RecAfter(id) = {v}]_vars

\* start=1, min=1, max=3, step=1, no cycle: next has returned 1, 2, 3, the
\* fourth call has failed and the stored value is still 3.
C3_Witness ==
    \E id \in Ids :
        /\ defs[id] = ExampleDef(FALSE)
        /\ history[id].pure /\ history[id].returned = <<1, 2, 3>>
        /\ last.op = "next" /\ last.id = id
        /\ last.rc = -1 /\ last.err = "SequenceOverflow"
        /\ Rec(id) = {3}

\* C4: when value + step would pass the bound and cycle is true, next
\* succeeds, returns min (ascending) or max (descending) with no step added,
\* and stores that value.
C4_OverflowCycles ==
    [][\A id \in Ids : \A v \in Rec(id) :
          (NextCalled(id) /\ WouldOverflow(defs[id], v) /\ defs[id].cycle)
             => /\ last'.rc = 0
                /\ last'.err = "none"
                /\ last'.result = WrapBound(defs[id])
                /\ RecAfter(id) = {WrapBound(defs[id])}]_vars

\* start=1, min=1, max=3, step=1, cycle: the fourth next has returned 1.
C4_Witness ==
    \E id \in Ids :
        /\ defs[id] = ExampleDef(TRUE)
        /\ history[id].pure /\ history[id].returned = <<1, 2, 3, 1>>
        /\ last.op = "next" /\ last.id = id /\ last.path = "cycle"
        /\ last.result = 1 /\ Rec(id) = {1}

\* C5 as stated: a next that follows a reset of the same sequence
\* returns def.start and leaves a record holding def.start.
C5_Original ==
    [][(last.op = "reset" /\ NextCalled(last.id))
          => /\ last'.rc = 0
             /\ last'.result = defs[last.id].start
             /\ RecAfter(last.id) = {defs[last.id].start}]_vars

\* C5, amended: a next that follows a reset of the same sequence either
\* returns def.start and leaves a record holding def.start, or, when the
\* index cannot grow to hold the new record, fails with OutOfMemory and
\* leaves no record.
C5_ResetThenNext ==
    [][(last.op = "reset" /\ NextCalled(last.id))
          => \/ /\ last'.rc = 0
                /\ last'.result = defs[last.id].start
                /\ RecAfter(last.id) = {defs[last.id].start}
             \/ /\ last'.rc = -1
                /\ last'.err = "OutOfMemory"
                /\ RecAfter(last.id) = {}
                /\ sequence_data_index' = sequence_data_index]_vars

\* The first next after a reset has returned def.start and stored it.
C5_Witness ==
    \E id \in Ids :
        /\ history[id].pure /\ history[id].origin = "reset"
        /\ history[id].returned = <<defs[id].start>>
        /\ last.op = "next" /\ last.id = id /\ last.rc = 0
        /\ last.result = defs[id].start
        /\ Rec(id) = {defs[id].start}

\* The condition under which update installs its argument.
Extends(def, cur, v) ==
    \/ cur = {}
    \/ def.step > 0 /\ \A c \in cur : v > c
    \/ def.step < 0 /\ \A c \in cur : v < c

\* C6 as stated: update stores v if and only if no record exists or v extends
\* the stored value in the direction of step; otherwise the stored value is
\* unchanged and update reports success.
C6_Original ==
    [][\A id \in Ids :
          (last'.op = "update" /\ last'.id = id)
             => IF Extends(defs[id], Rec(id), last'.arg)
                THEN RecAfter(id) = {last'.arg}
                ELSE /\ RecAfter(id) = Rec(id)
                     /\ last'.rc = 0]_vars

\* C6, amended: update stores v if and only if no record exists and the index
\* can grow, or v extends the stored value in the direction of step (step > 0
\* and v > current, or step < 0 and v < current); when a record exists and v
\* does not extend it, the stored value is unchanged and update reports
\* success; when no record exists and the index cannot grow, update fails
\* with OutOfMemory and no record is created.
C6_UpdateExtends ==
    [][\A id \in Ids :
          (last'.op = "update" /\ last'.id = id)
             => IF Extends(defs[id], Rec(id), last'.arg)
                THEN \/ /\ RecAfter(id) = {last'.arg}
                        /\ last'.rc = 0
                     \/ /\ Rec(id) = {}
                        /\ RecAfter(id) = {}
                        /\ last'.rc = -1
                        /\ last'.err = "OutOfMemory"
                ELSE /\ RecAfter(id) = Rec(id)
                     /\ sequence_data_index' = sequence_data_index
                     /\ last'.rc = 0]_vars

\* An update of an ascending sequence with a value not above the stored one
\* has left the stored value alone and reported success.
C6_Witness ==
    \E id \in Ids : \E c \in Rec(id) :
        /\ defs[id].step > 0
        /\ last.op = "update" /\ last.id = id /\ last.path = "keep"
        /\ last.arg <= c /\ last.arg # c
        /\ last.rc = 0

\* C7: after a successful set(def, v) the stored value is exactly v.
C7_SetInstalls ==
    (last.op = "set" /\ last.rc = 0) => Rec(last.id) = {last.arg}

\* A set has replaced an existing record with a value outside [min, max].
C7_Witness ==
    /\ last.op = "set" /\ last.rc = 0 /\ last.path = "replace"
    /\ last.arg > defs[last.id].max
    /\ Rec(last.id) = {last.arg}

\* C8: reset removes the record of the sequence when there is one, changes
\* nothing and raises no error when there is none, and a reset that follows a
\* reset leaves the store as the first one left it.
C8_ResetRemoves ==
    [][\A id \in Ids :
          (last'.op = "reset" /\ last'.id = id)
             => /\ RecAfter(id) = {}
                /\ sequence_data_index' =
                      { d \in sequence_data_index : d.id # id }
                /\ last'.rc = 0 /\ last'.err = "none"
                /\ Rec(id) = {} => sequence_data_index' = sequence_data_index
                /\ (last.op = "reset" /\ last.id = id)
                      => sequence_data_index' = sequence_data_index]_vars

\* A reset has found no record to remove and has left the store empty.
C8_Witness ==
    /\ last.op = "reset" /\ last.path = "absent"
    /\ Rec(last.id) = {}
    /\ history[last.id].origin = "reset"

\* C9 as stated: next adds step to the stored value only when the sum is
\* representable, and takes the overflow path whenever it is not.
C9_Original ==
    [][\A id \in Ids : \A v \in Rec(id) :
          NextCalled(id)
             => /\ ~last'.ub
                /\ last'.path = "add"
                      => /\ v + defs[id].step \in Int64
                         /\ last'.result = v + defs[id].step
                /\ v + defs[id].step \notin Int64
                      => last'.path \in {"overflow", "cycle"}]_vars

\* C9, amended: next adds step to the stored value only when the sum is
\* representable; when it is not, next performs no addition: it takes the
\* overflow path, or, when the stored value is on the origin side of the
\* range (ascending: value < min; descending: value > max), returns that
\* bound.
C9_CheckedAddition ==
    [][\A id \in Ids : \A v \in Rec(id) :
          NextCalled(id)
             => /\ ~last'.ub
                /\ last'.path = "add"
                      => /\ v + defs[id].step \in Int64
                         /\ last'.result = v + defs[id].step
                /\ v + defs[id].step \notin Int64
                      => IF BehindOrigin(defs[id], v)
                         THEN /\ last'.path = "clamp"
                              /\ last'.result = WrapBound(defs[id])
                         ELSE last'.path \in {"overflow", "cycle"}]_vars

\* A next has refused, with SequenceOverflow, a step whose sum is not
\* representable.
C9_Witness ==
    \E id \in Ids : \E v \in Rec(id) :
        /\ last.op = "next" /\ last.id = id /\ last.path = "overflow"
        /\ v + defs[id].step \notin Int64

\* C10: while sessions call only next on a sequence that does not cycle, the
\* i-th successful call returns start + (i - 1) * step: no value is returned
\* twice and none of the progression is skipped.
C10_NoDuplicateNoSkip ==
    \A id \in Ids :
        LET def == defs[id]
            h == history[id]
        IN  (~def.cycle /\ h.pure) =>
               /\ \A i \in 1..Len(h.returned) :
                     h.returned[i] = def.start + (i - 1) * def.step
               /\ \A i, j \in 1..Len(h.returned) :
                     i # j => h.returned[i] # h.returned[j]

\* Two sessions have shared three values of a sequence that does not cycle.
C10_Witness ==
    \E id \in Ids :
        /\ ~defs[id].cycle /\ history[id].pure
        /\ Len(history[id].returned) >= 3
        /\ Cardinality(history[id].callers) >= 2

\* C33: when the stored value lies on the origin side of the range
\* (ascending: value < min; descending: value > max), next succeeds, returns
\* min (ascending) or max (descending) without adding step, stores that
\* bound, and raises no overflow, whether the sequence cycles or not.
C33_ClampToOrigin ==
    [][\A id \in Ids : \A v \in Rec(id) :
          (NextCalled(id) /\ BehindOrigin(defs[id], v))
             => /\ last'.rc = 0
                /\ last'.err = "none"
                /\ last'.path = "clamp"
                /\ ~last'.ub
                /\ last'.result = WrapBound(defs[id])
                /\ RecAfter(id) = {WrapBound(defs[id])}]_vars

\* A next on an ascending sequence that does not cycle has found the stored
\* value below min and has returned min, where min + step passes max.
C33_Witness ==
    \E id \in Ids :
        /\ defs[id].step > 0 /\ ~defs[id].cycle
        /\ WouldOverflow(defs[id], defs[id].min)
        /\ last.op = "next" /\ last.id = id /\ last.path = "clamp"
        /\ last.rc = 0 /\ last.result = defs[id].min
        /\ Rec(id) = {defs[id].min}

\* C34: whatever set, update, reset and next calls came before, a successful
\* next returns a value of [min, max] and leaves exactly that value stored,
\* and no outcome of a next from the stored value fails the assertion of
\* sequence.c:224.
C34_NextInRange ==
    [][\A id \in Ids :
          NextCalled(id)
             => /\ \A v \in Rec(id) : \A out \in next_step(defs[id], v) :
                      out.assert_ok
                /\ last'.rc = 0
                      => /\ last'.result >= defs[id].min
                         /\ last'.result <= defs[id].max
                         /\ RecAfter(id) = {last'.result}]_vars

\* After a set or an update, a next has added step to the stored value and
\* has returned max.
C34_Witness ==
    \E id \in Ids :
        /\ ~history[id].pure
        /\ last.op = "next" /\ last.id = id /\ last.rc = 0
        /\ last.path = "add"
        /\ last.result = defs[id].max
        /\ Rec(id) = {defs[id].max}

-----------------------------------------------------------------------------
(* A sequence that does not cycle, driven by next and update alone.        *)

\* The definitions without cycle.
UpdateDefs == { d \in SequenceDefs : ~d.cycle }

\* The values next has returned, with the one of the call being made.
Issued(id) ==
    IF last'.op = "next" /\ last'.id = id /\ last'.rc = 0
    THEN Append(issued[id], last'.result)
    ELSE issued[id]

InitUpdate ==
    /\ defs \in [{1} -> UpdateDefs]
    /\ sequence_data_index = {}
    /\ last = Call("init", 0, 0, 0, 0, 0, "none", "none", FALSE)
    /\ history = [id \in DOMAIN defs |-> FreshHistory("init")]
    /\ issued = [id \in DOMAIN defs |-> <<>>]
    /\ checked = NoCheck /\ encoded = NoTuple /\ snapshot = NoSnapshot
    /\ SqlIdle

NextUpdate ==
    \/ \E id \in Ids, value \in Int64 :
          \E mem_ok \in MemStates(id) :
             /\ sequence_update(id, value, mem_ok)
             /\ UNCHANGED OutsideStore
    \/ \E s \in Sessions, id \in Ids :
          \E mem_ok \in MemStates(id) :
             /\ sequence_next(s, id, mem_ok)
             /\ issued' = [i \in Ids |-> Issued(i)]
             /\ UNCHANGED <<checked, encoded, snapshot, sqlVars>>

SpecUpdate == InitUpdate /\ [][NextUpdate]_vars

\* C35: on a sequence that does not cycle, under any interleaving of next
\* and update calls, the values returned by the successful next calls are
\* strictly increasing when step > 0 and strictly decreasing when step < 0.
C35_UpdateNeverRegresses ==
    \A id \in Ids :
        LET r == issued[id]
        IN  \A i, j \in 1..Len(r) :
               i < j => IF defs[id].step > 0 THEN r[i] < r[j] ELSE r[i] > r[j]

\* On an ascending sequence an update has moved the stored value forward
\* between two next calls, a later update with a value behind the stored one
\* has been ignored, and next has returned a third value.
C35_Witness ==
    \E id \in Ids :
        LET r == issued[id]
        IN  /\ defs[id].step > 0
            /\ ~history[id].pure
            /\ Len(r) >= 3
            /\ r[2] > r[1] + defs[id].step
            /\ last.op = "next" /\ last.rc = 0 /\ last.result = r[Len(r)]

-----------------------------------------------------------------------------
(* The store with two sequences: the operations of one id next to the      *)
(* record of the other.                                                    *)

\* The ids of the two sequences of this schema.
StoreIds == {1, 2}

\* Their definitions: one ascending without cycle, one descending with
\* cycle, both over [-DefSpan, DefSpan] from start 0.
StoreDefs ==
    { d \in SequenceDefs :
        /\ d.start = 0 /\ d.min = -DefSpan /\ d.max = DefSpan
        /\ \/ (d.step = 1 /\ ~d.cycle)
           \/ (d.step = -1 /\ d.cycle) }

\* The one session that calls next here: the calls of several sessions on
\* one sequence are the subject of Spec.
StoreSession == CHOOSE s \in Sessions : TRUE

InitStore ==
    /\ defs \in [StoreIds -> StoreDefs]
    /\ sequence_data_index = {}
    /\ last = Call("init", 0, 0, 0, 0, 0, "none", "none", FALSE)
    /\ history = [id \in DOMAIN defs |-> FreshHistory("init")]
    /\ OutsideStoreIdle

NextStore ==
    \/ \E id \in Ids : sequence_reset(id) /\ UNCHANGED OutsideStore
    \/ \E id \in Ids, value \in DefVals :
          \E mem_ok \in MemStates(id) :
             sequence_set(id, value, mem_ok) /\ UNCHANGED OutsideStore
    \/ \E id \in Ids, value \in DefVals :
          \E mem_ok \in MemStates(id) :
             sequence_update(id, value, mem_ok) /\ UNCHANGED OutsideStore
    \/ \E id \in Ids :
          \E mem_ok \in MemStates(id) :
             sequence_next(StoreSession, id, mem_ok) /\ UNCHANGED OutsideStore

SpecStore == InitStore /\ [][NextStore]_vars

\* C11: in every reachable state, after any sequence of reset, set, update
\* and next calls on any ids, the index holds at most one record per
\* sequence id.
C11_OneRecordPerId ==
    \A id \in Ids :
        Cardinality(light_sequence_find_key(sequence_data_index, id)) <= 1

\* Both sequences have a record and the last call, a set, found the record
\* of its sequence already there.
C11_Witness ==
    /\ \A id \in Ids : Rec(id) # {}
    /\ last.op = "set" /\ last.path = "replace"

\* C12: a record is removed only by reset of its own id (set, update and
\* next never remove one), and an operation on one id leaves the presence
\* and the value of the record of every other id unchanged.
C12_Frame ==
    [][ \A id \in Ids :
          /\ (Rec(id) # {} /\ RecAfter(id) = {})
                => (last'.op = "reset" /\ last'.id = id)
          /\ last'.id # id => RecAfter(id) = Rec(id) ]_vars

\* A reset has removed the record of one sequence next to the record of the
\* other.
C12_Witness ==
    \E id, other \in Ids :
        /\ id # other
        /\ last.op = "reset" /\ last.id = id /\ last.path = "delete"
        /\ Rec(id) = {} /\ Rec(other) # {}

\* C13: set, update and the first next of a sequence fail with OutOfMemory
\* only when no record exists for the id and the index cannot grow, and then
\* no record is created and the store is unchanged; when a record exists,
\* set and update never fail.
C13_OutOfMemory ==
    [][ LET id == last'.id
            arg == last'.arg
        IN  last'.op \in {"set", "update", "next"} =>
              /\ last'.err = "OutOfMemory" =>
                    /\ Rec(id) = {}
                    /\ \/ sequence_set(id, arg, FALSE)
                       \/ sequence_update(id, arg, FALSE)
                       \/ sequence_next(last'.session, id, FALSE)
                    /\ sequence_data_index' = sequence_data_index
                    /\ RecAfter(id) = {}
              /\ (Rec(id) # {} /\ last'.op \in {"set", "update"})
                    => (last'.rc = 0 /\ last'.err = "none") ]_vars

\* An update of a sequence without record has failed for lack of memory
\* while the other sequence has a record.
C13_Witness ==
    \E id, other \in Ids :
        /\ id # other
        /\ last.op = "update" /\ last.id = id /\ last.err = "OutOfMemory"
        /\ Rec(id) = {} /\ Rec(other) # {}

-----------------------------------------------------------------------------
(* access_check_sequence, sequence.c:241-274                               *)

\* The privileges of a uint8_t access mask, a mask being the set of its bits.
Privs == {"PRIV_R", "PRIV_W", "PRIV_U"}
PRIV_U == {"PRIV_U"}
PRIV_W == {"PRIV_W"}

\* a & b, a | b, a ^ b and ~a on access masks.
BitAnd(a, b) == a \cap b
BitOr(a, b) == a \cup b
BitXor(a, b) == (a \ b) \cup (b \ a)
BitNot(a) == Privs \ a

\* Users and their authentication tokens (the index into seq->access).
Uids == {1, 2}
AuthTokens == {0, 1}

\* The only sequence checked here, and its owner.
CheckedSequence == [name |-> "seq", uid |-> 1]

\* current_user(): the credentials of the caller.
Credentials ==
    [uid : Uids, universal_access : SUBSET Privs, auth_token : AuthTokens]

\* struct sequence as the check reads it: def->uid, def->name and the
\* effective privileges per authentication token.
CheckedSequences ==
    [def : {CheckedSequence}, access : [AuthTokens -> [effective : SUBSET Privs]]]

\* user_find(uid): the user, or NULL when the user cache has none.
NULL == [null |-> TRUE]
User(uid) == [def |-> [uid |-> uid, name |-> <<"user", uid>>]]
user_find(uid) == {User(uid), NULL}

\* The diagnostics area: empty, or the AccessDeniedError of diag_set.
NoDiag == [type |-> "none"]
AccessDeniedError(access, object_type, object_name, user_name) ==
    [type |-> "AccessDeniedError", access |-> access, object_type |-> object_type,
     object_name |-> object_name, user |-> user_name]

\* The check that passes only on effective privileges: the universal ones
\* are not masked out.
access_check_sequence_unmasked(seq, cr, user) ==
    LET access == BitOr(PRIV_U, PRIV_W)
        masked_access == access
    IN  IF /\ seq.def.uid # cr.uid
           /\ BitAnd(masked_access, BitNot(seq.access[cr.auth_token].effective)) # {}
        THEN [rc |-> -1,
              diag |-> IF user # NULL
                       THEN IF BitAnd(cr.universal_access, PRIV_U) = {}
                            THEN AccessDeniedError(PRIV_U, "SC_UNIVERSE", "",
                                                   user.def.name)
                            ELSE AccessDeniedError(access, "SC_SEQUENCE",
                                                   seq.def.name, user.def.name)
                       ELSE NoDiag]
        ELSE [rc |-> 0, diag |-> NoDiag]

\* The check that reports the universe only when the caller has no universal
\* privilege at all.
access_check_sequence_any_universal(seq, cr, user) ==
    LET access == BitOr(PRIV_U, PRIV_W)
        masked_access == BitXor(access, BitAnd(access, cr.universal_access))
    IN  IF /\ seq.def.uid # cr.uid
           /\ BitAnd(masked_access, BitNot(seq.access[cr.auth_token].effective)) # {}
        THEN [rc |-> -1,
              diag |-> IF user # NULL
                       THEN IF cr.universal_access = {}
                            THEN AccessDeniedError(PRIV_U, "SC_UNIVERSE", "",
                                                   user.def.name)
                            ELSE AccessDeniedError(access, "SC_SEQUENCE",
                                                   seq.def.name, user.def.name)
                       ELSE NoDiag]
        ELSE [rc |-> 0, diag |-> NoDiag]

\* The return code and what the call leaves in the diagnostics area; user is
\* what user_find(cr->uid) returns when the check fails.
access_check_sequence(seq, cr, user) ==
    LET access == BitOr(PRIV_U, PRIV_W)
        masked_access == BitXor(access, BitAnd(access, cr.universal_access))
    IN  IF /\ seq.def.uid # cr.uid
           /\ BitAnd(masked_access, BitNot(seq.access[cr.auth_token].effective)) # {}
        THEN [rc |-> -1,
              diag |-> IF user # NULL
                       THEN IF BitAnd(cr.universal_access, PRIV_U) = {}
                            THEN AccessDeniedError(PRIV_U, "SC_UNIVERSE", "",
                                                   user.def.name)
                            ELSE AccessDeniedError(access, "SC_SEQUENCE",
                                                   seq.def.name, user.def.name)
                       ELSE NoDiag]
        ELSE [rc |-> 0, diag |-> NoDiag]

\* A call of the check by the current user on a sequence.
CheckAccess ==
    /\ checked.done = FALSE
    /\ \E user \in user_find(checked.cr.uid) :
          LET out == access_check_sequence(checked.seq, checked.cr, user)
          IN  checked' = [checked EXCEPT !.done = TRUE, !.user = user,
                                         !.rc = out.rc, !.diag = out.diag]
    /\ UNCHANGED <<defs, sequence_data_index, last, history, issued, encoded, snapshot, sqlVars>>

\* The check is called again by the same caller on the same sequence.
CheckAgain ==
    /\ checked.done = TRUE
    /\ checked' = [checked EXCEPT !.done = FALSE, !.user = NULL,
                                  !.rc = 0, !.diag = NoDiag]
    /\ UNCHANGED <<defs, sequence_data_index, last, history, issued, encoded, snapshot, sqlVars>>

InitAccess ==
    /\ defs = <<>>
    /\ sequence_data_index = {}
    /\ last = Call("init", 0, 0, 0, 0, 0, "none", "none", FALSE)
    /\ history = <<>>
    /\ issued = NoneIssued
    /\ encoded = NoTuple
    /\ snapshot = NoSnapshot
    /\ SqlIdle
    /\ \E cr \in Credentials, seq \in CheckedSequences :
          checked = [done |-> FALSE, cr |-> cr, seq |-> seq, user |-> NULL,
                     rc |-> 0, diag |-> NoDiag]

NextAccess == CheckAccess \/ CheckAgain

SpecAccess == InitAccess /\ [][NextAccess]_vars

\* The caller owns the sequence.
Owns(c) == c.seq.def.uid = c.cr.uid

\* The caller holds the privilege universally or effectively on the sequence.
Holds(c, priv) ==
    \/ priv \in c.cr.universal_access
    \/ priv \in c.seq.access[c.cr.auth_token].effective

\* C14: check_access succeeds if and only if the caller owns the sequence,
\* or each of the two privileges usage and write is held by the caller
\* either universally or effectively on this sequence, for every combination
\* of universal access bits, per-sequence effective bits and ownership.
C14_AccessPredicate ==
    checked.done =>
       ((checked.rc = 0) <=>
           (Owns(checked) \/ (Holds(checked, "PRIV_U") /\ Holds(checked, "PRIV_W"))))

\* A caller who is not the owner has passed with usage held only universally
\* and write held only on the sequence.
C14_Witness ==
    /\ checked.done /\ checked.rc = 0 /\ ~Owns(checked)
    /\ "PRIV_U" \in checked.cr.universal_access
    /\ "PRIV_U" \notin checked.seq.access[checked.cr.auth_token].effective
    /\ "PRIV_W" \notin checked.cr.universal_access

\* C15 as stated: every failing check_access produces an AccessDenied error
\* that names the caller, the universe-level variant exactly when the caller
\* holds no universe privilege at all and otherwise the variant naming
\* usage+write on this sequence.
C15_Original ==
    (checked.done /\ checked.rc # 0) =>
       /\ checked.diag.type = "AccessDeniedError"
       /\ checked.diag.user = User(checked.cr.uid).def.name
       /\ IF checked.cr.universal_access = {}
          THEN checked.diag.object_type = "SC_UNIVERSE"
          ELSE /\ checked.diag.object_type = "SC_SEQUENCE"
               /\ checked.diag.access = {"PRIV_U", "PRIV_W"}
               /\ checked.diag.object_name = checked.seq.def.name

\* C15: every failing check_access whose caller user_find finds produces an
\* AccessDenied error that names the caller, the universe-level variant
\* (usage on the universe) exactly when the caller lacks the universal usage
\* privilege and otherwise the variant naming usage+write on this sequence;
\* when user_find finds no user the check fails and sets no error itself.
C15_AccessDenied ==
    (checked.done /\ checked.rc # 0) =>
       IF checked.user = NULL
       THEN checked.diag = NoDiag
       ELSE /\ checked.diag.type = "AccessDeniedError"
            /\ checked.diag.user = User(checked.cr.uid).def.name
            /\ IF "PRIV_U" \notin checked.cr.universal_access
               THEN /\ checked.diag.object_type = "SC_UNIVERSE"
                    /\ checked.diag.access = {"PRIV_U"}
                    /\ checked.diag.object_name = ""
               ELSE /\ checked.diag.object_type = "SC_SEQUENCE"
                    /\ checked.diag.access = {"PRIV_U", "PRIV_W"}
                    /\ checked.diag.object_name = checked.seq.def.name

\* A known caller holding universal write but not universal usage has been
\* denied.
C15_Witness ==
    /\ checked.done /\ checked.rc # 0 /\ checked.user # NULL
    /\ checked.cr.universal_access = {"PRIV_W"}
    /\ checked.diag.object_type = "SC_UNIVERSE"

-----------------------------------------------------------------------------
(* The tuple of a snapshot record, sequence.c:284-285 and 299-306.         *)
(*                                                                         *)
(* A 64-bit word is the tuple of its four 16-bit limbs, most significant   *)
(* first, so that every uint64_t and int64_t (two's complement) is a value *)
(* TLC can hold; a uint32_t is zero-extended to such a word.               *)

LimbMax == 2^16 - 1

\* The word of a small integer (sign-extended) and the integer of such a word.
Wide(n) ==
    IF n >= 0 THEN <<0, 0, 0, n>> ELSE <<LimbMax, LimbMax, LimbMax, 2^16 + n>>
Narrow(w) == IF w[1] = 0 THEN w[4] ELSE w[4] - 2^16

\* (uint64_t) of a uint32_t given by its two limbs.
ZeroExtend(id) == <<0, 0, id[1], id[2]>>

\* a < b on uint64_t.
LessU(a, b) ==
    \E i \in 1..4 : a[i] < b[i] /\ \A j \in 1..(i - 1) : a[j] = b[j]

\* a >= b on int64_t: the unsigned order with the sign bit flipped.
Bias(w) == <<(w[1] + 2^15) % 2^16, w[2], w[3], w[4]>>
GeS(a, b) == ~LessU(Bias(a), Bias(b))

UINT64_MAX == <<LimbMax, LimbMax, LimbMax, LimbMax>>

\* msgpuck: the length of an array header, of an unsigned integer and of a
\* negative integer.
mp_sizeof_array(size) ==
    IF size <= 15 THEN 1 ELSE IF size <= 2^16 - 1 THEN 3 ELSE 5

mp_sizeof_uint(num) ==
    IF ~LessU(Wide(2^7 - 1), num) THEN 1
    ELSE IF ~LessU(Wide(2^8 - 1), num) THEN 2
    ELSE IF ~LessU(Wide(2^16 - 1), num) THEN 3
    ELSE IF ~LessU(<<0, 0, LimbMax, LimbMax>>, num) THEN 5
    ELSE 9

mp_sizeof_int(num) ==
    IF GeS(num, Wide(-(2^5))) THEN 1
    ELSE IF GeS(num, Wide(-(2^7))) THEN 2
    ELSE IF GeS(num, Wide(-(2^15))) THEN 3
    ELSE IF GeS(num, <<LimbMax, LimbMax, 2^15, 0>>) THEN 5
    ELSE 9

\* What mp_encode_array, mp_encode_uint and mp_encode_int write: the type of
\* the item, its length in bytes and the number it carries.
mp_encode_array(size) ==
    [type |-> "array", bytes |-> mp_sizeof_array(size), num |-> Wide(size)]
mp_encode_uint(num) ==
    [type |-> "uint", bytes |-> mp_sizeof_uint(num), num |-> num]
mp_encode_int(num) ==
    [type |-> "int", bytes |-> mp_sizeof_int(num), num |-> num]

SEQUENCE_TUPLE_BUF_SIZE == mp_sizeof_array(2) + 2 * mp_sizeof_uint(UINT64_MAX)

\* data->value >= 0 on int64_t.
NonNegative(value) == GeS(value, Wide(0))

\* The encoding that writes every value as an unsigned integer.
sequence_tuple_unsigned(data) ==
    <<mp_encode_array(2),
      mp_encode_uint(ZeroExtend(data.id)),
      mp_encode_uint(data.value)>>

\* The items sequence_data_iterator_next writes into iter->tuple,
\* sequence.c:299-304.
sequence_tuple(data) ==
    <<mp_encode_array(2),
      mp_encode_uint(ZeroExtend(data.id)),
      IF NonNegative(data.value)
      THEN mp_encode_uint(data.value)
      ELSE mp_encode_int(data.value)>>

\* *size = buf_end - iter->tuple.
TupleSize(tuple) == tuple[1].bytes + tuple[2].bytes + tuple[3].bytes

\* The limbs around which an encoding changes its length or its sign.
EdgeLimbs ==
    {0, 1, 2^7 - 1, 2^7, 2^8 - 1, 2^8, 2^15 - 1, 2^15,
     2^16 - 2^7 - 1, 2^16 - 2^7, 2^16 - 2^5 - 1, 2^16 - 2^5, LimbMax}
HighLimbs == {0, 2^15 - 1, 2^15, LimbMax}
EndLimbs == {0, LimbMax}

\* The records encoded here: ids of 32 bits and values of 64 bits.
EncodedIds == { <<h, l>> : h \in EndLimbs, l \in EdgeLimbs }
EncodedValues ==
    { <<a, b, c, d>> : a \in HighLimbs, b \in EndLimbs, c \in HighLimbs,
                       d \in EdgeLimbs }

\* The encoding step of sequence_data_iterator_next on one record.
EncodeTuple ==
    /\ encoded.done = FALSE
    /\ LET tuple == sequence_tuple(encoded.data)
       IN  encoded' = [encoded EXCEPT !.done = TRUE, !.tuple = tuple,
                                      !.size = TupleSize(tuple)]
    /\ UNCHANGED <<defs, sequence_data_index, last, history, issued, checked, snapshot, sqlVars>>

\* The buffer is reused for the next record.
EncodeAgain ==
    /\ encoded.done = TRUE
    /\ encoded' = [encoded EXCEPT !.done = FALSE, !.tuple = <<>>, !.size = 0]
    /\ UNCHANGED <<defs, sequence_data_index, last, history, issued, checked, snapshot, sqlVars>>

InitEncode ==
    /\ defs = <<>>
    /\ sequence_data_index = {}
    /\ last = Call("init", 0, 0, 0, 0, 0, "none", "none", FALSE)
    /\ history = <<>>
    /\ issued = NoneIssued
    /\ checked = NoCheck
    /\ snapshot = NoSnapshot
    /\ SqlIdle
    /\ \E id \in EncodedIds, value \in EncodedValues :
          encoded = [done |-> FALSE, data |-> [id |-> id, value |-> value],
                     tuple |-> <<>>, size |-> 0]

NextEncode == EncodeTuple \/ EncodeAgain

SpecEncode == InitEncode /\ [][NextEncode]_vars

\* C17: for every 32-bit id and every signed 64-bit value the snapshot
\* record is a 2-element array holding the id as an unsigned integer and the
\* value as an unsigned integer when value >= 0 and as a signed integer when
\* value < 0, and its encoded length never exceeds the precomputed bound
\* (array header plus two maximum-width integer encodings).
C17_TupleEncoding ==
    encoded.done =>
       LET t == encoded.tuple
           negative == encoded.data.value[1] >= 2^15
       IN  /\ Len(t) = 3
           /\ t[1].type = "array" /\ t[1].num = Wide(2)
           /\ t[2].type = "uint" /\ t[2].num = ZeroExtend(encoded.data.id)
           /\ t[3].type = (IF negative THEN "int" ELSE "uint")
           /\ t[3].num = encoded.data.value
           /\ encoded.size = t[1].bytes + t[2].bytes + t[3].bytes
           /\ encoded.size <= 1 + 9 + 9
           /\ encoded.size <= SEQUENCE_TUPLE_BUF_SIZE

\* The record of the largest id with INT64_MIN has been encoded: a signed
\* integer of the greatest length.
C17_Witness ==
    /\ encoded.done
    /\ encoded.data.id = <<LimbMax, LimbMax>>
    /\ encoded.data.value = <<2^15, 0, 0, 0>>
    /\ encoded.tuple[3].type = "int"
    /\ encoded.size = 1 + 5 + 9

-----------------------------------------------------------------------------
(* The snapshot iterator, sequence.c:276-337, over the iterator of the     *)
(* hash index (salad/light.h).                                             *)

\* An iterator of the index: the keys it has passed and, once frozen, the
\* view of the index it reads; an iterator that is not frozen reads the
\* index as it is when it is advanced.
light_sequence_iterator_begin(index) ==
    [visited |-> {}, frozen |-> FALSE, view |-> {}]

light_sequence_iterator_freeze(index, itr) ==
    [itr EXCEPT !.frozen = TRUE, !.view = index]

\* The next record and the advanced iterator: any record not passed yet (the
\* order of the slots is not modelled), or NULL when none is left.
light_sequence_iterator_get_and_next(index, itr) ==
    LET view == IF itr.frozen THEN itr.view ELSE index
        rest == { d \in view : d.id \notin itr.visited }
    IN  IF rest = {}
        THEN { [data |-> NULL, itr |-> itr] }
        ELSE { [data |-> d, itr |-> [itr EXCEPT !.visited = @ \cup {d.id}]] :
                 d \in rest }

\* A record of the index as the 32-bit id and 64-bit value it is in memory.
WideData(d) == [id |-> <<0, d.id>>, value |-> Wide(d.value)]

\* The (id, value) pair a tuple carries.
TuplePair(tuple) ==
    [id |-> Narrow(tuple[2].num), value |-> Narrow(tuple[3].num)]

\* The iterator created without freezing the index.
sequence_data_iterator_create_unfrozen(index, mem_ok) ==
    IF ~mem_ok
    THEN [iter |-> NULL, err |-> "OutOfMemory"]
    ELSE [iter |-> [iter |-> light_sequence_iterator_begin(index), tuple |-> <<>>],
          err |-> "none"]

\* sequence_data_iterator_create, sequence.c:320-337; mem_ok is whether
\* calloc returns memory.
sequence_data_iterator_create(index, mem_ok) ==
    IF ~mem_ok
    THEN [iter |-> NULL, err |-> "OutOfMemory"]
    ELSE [iter |-> [iter |-> light_sequence_iterator_freeze(index,
                                light_sequence_iterator_begin(index)),
                    tuple |-> <<>>],
          err |-> "none"]

\* sequence_data_iterator_next, sequence.c:287-308: the outcomes, each with
\* the returned tuple (NULL at the end), *size and the iterator after the call.
sequence_data_iterator_next(index, iter) ==
    { IF got.data = NULL
      THEN [ret |-> NULL, size |-> 0, iter |-> [iter EXCEPT !.iter = got.itr]]
      ELSE LET tuple == sequence_tuple(WideData(got.data))
           IN  [ret |-> tuple, size |-> TupleSize(tuple),
                iter |-> [iter |-> got.itr, tuple |-> tuple]] :
      got \in light_sequence_iterator_get_and_next(index, iter.iter) }

\* The checkpoint creates its iterator.  held is the content of the index at
\* that moment and returned what the calls of next have returned since, each
\* with whether the index still held that pair, and that id, at the call.
IteratorCreate(mem_ok) ==
    /\ ~snapshot.open
    /\ LET out == sequence_data_iterator_create(sequence_data_index, mem_ok)
       IN  snapshot' =
              IF out.iter = NULL
              THEN [open |-> FALSE]
              ELSE [open |-> TRUE, iter |-> out.iter, held |-> sequence_data_index,
                    returned |-> <<>>, ended |-> FALSE]
    /\ UNCHANGED <<defs, sequence_data_index, last, history, issued, checked, encoded, sqlVars>>

\* The checkpoint calls next until it has seen NULL.
IteratorNext ==
    /\ snapshot.open /\ ~snapshot.ended
    /\ \E out \in sequence_data_iterator_next(sequence_data_index, snapshot.iter) :
          snapshot' =
             IF out.ret = NULL
             THEN [snapshot EXCEPT !.iter = out.iter, !.ended = TRUE]
             ELSE [snapshot EXCEPT
                      !.iter = out.iter,
                      !.returned = Append(@,
                         LET pair == TuplePair(out.ret)
                         IN  [pair |-> pair,
                              stale |-> pair \notin sequence_data_index,
                              gone |-> Rec(pair.id) = {}])]
    /\ UNCHANGED <<defs, sequence_data_index, last, history, issued, checked, encoded, sqlVars>>

\* sequence_data_iterator_free, sequence.c:310-318.
IteratorFree ==
    /\ snapshot.open
    /\ snapshot' = [open |-> FALSE]
    /\ UNCHANGED <<defs, sequence_data_index, last, history, issued, checked, encoded, sqlVars>>

\* The values set and update are called with while a snapshot is taken, and
\* the definitions of the two sequences: ascending without cycle and
\* descending with cycle.
SnapshotVals == {-1, 1}
SnapshotDefs ==
    [id \in StoreIds |->
        [start |-> 0, min |-> -1, max |-> 1,
         step |-> IF id = 1 THEN 1 ELSE -1, cycle |-> id # 1]]

InitSnapshot ==
    /\ defs = SnapshotDefs
    /\ sequence_data_index = {}
    /\ last = Call("init", 0, 0, 0, 0, 0, "none", "none", FALSE)
    /\ history = [id \in DOMAIN defs |-> FreshHistory("init")]
    /\ OutsideStoreIdle

NextSnapshot ==
    \/ \E id \in Ids : sequence_reset(id) /\ UNCHANGED OutsideStore
    \/ \E id \in Ids, value \in SnapshotVals :
          \E mem_ok \in MemStates(id) :
             sequence_set(id, value, mem_ok) /\ UNCHANGED OutsideStore
    \/ \E id \in Ids, value \in SnapshotVals :
          \E mem_ok \in MemStates(id) :
             sequence_update(id, value, mem_ok) /\ UNCHANGED OutsideStore
    \/ \E id \in Ids :
          \E mem_ok \in MemStates(id) :
             sequence_next(StoreSession, id, mem_ok) /\ UNCHANGED OutsideStore
    \/ \E mem_ok \in BOOLEAN : IteratorCreate(mem_ok)
    \/ IteratorNext
    \/ IteratorFree

SpecSnapshot == InitSnapshot /\ [][NextSnapshot]_vars

\* The (id, value) pairs returned so far.
ReturnedPairs == { snapshot.returned[i].pair : i \in DOMAIN snapshot.returned }

\* C16: a snapshot iterator yields exactly the (id, value) pairs the store
\* held when the iterator was created, each id once and then the end of the
\* iteration, whatever set, update, next or reset calls are interleaved
\* between its creation and its last next; no yielded value mixes an old and
\* a new value.
C16_SnapshotIsFrozen ==
    snapshot.open =>
       /\ ReturnedPairs \subseteq snapshot.held
       /\ \A i, j \in DOMAIN snapshot.returned :
             i # j => snapshot.returned[i].pair.id # snapshot.returned[j].pair.id
       /\ snapshot.ended => ReturnedPairs = snapshot.held

\* An iterator created over two records has returned both and then the end,
\* and each record had been changed or removed by the time it was returned.
C16_Witness ==
    /\ snapshot.open /\ snapshot.ended
    /\ Len(snapshot.returned) = 2
    /\ \A i \in DOMAIN snapshot.returned : snapshot.returned[i].stale
    /\ \E i \in DOMAIN snapshot.returned : snapshot.returned[i].gone

-----------------------------------------------------------------------------
(* Handles, transactions and cursors of src/box/sql/btree.c.               *)

\* Btree.inTrans, btreeInt.h:69-71.
TRANS_NONE == 0
TRANS_READ == 1
TRANS_WRITE == 2

\* BtCursor.eState, btreeInt.h:149-153.
CURSOR_INVALID == 0
CURSOR_VALID == 1
CURSOR_SKIPNEXT == 2
CURSOR_REQUIRESEEK == 3
CURSOR_FAULT == 4

\* BtCursor.curFlags, btreeInt.h:116-117, and the wrFlag argument of
\* sqlite3BtreeCursor, btree.h: a mask is the set of its bits.
BTCF_TaCursor == {"BTCF_TaCursor"}
BTCF_TEphemCursor == {"BTCF_TEphemCursor"}
BTREE_WRCSR == {"BTREE_WRCSR"}
BTREE_FORDELETE == {"BTREE_FORDELETE"}

\* The values of wrFlag the assertion at btree.c:286-289 admits.
WrFlags == {{}, BTREE_WRCSR, BTREE_WRCSR \cup BTREE_FORDELETE}

\* The handles of the connection: db->mdb.pBt, the main database backed by
\* Tarantool, and the handle of an ephemeral table.  0 is the null pointer.
MainBtree == 1
EphemeralBtree == 2
Btrees == {MainBtree, EphemeralBtree}

\* The cursors the engine has allocated.
Cursors == {1}

\* Root pages asked for, key comparison contexts (0 for none), and the
\* numbers of running statements that read (db->nVdbeRead).
RootIds == {0, 1}
KeyInfos == {0, 1}
VdbeReads == {1, 2}

\* A field no call has written since the cursor was allocated.
Uninitialized == -1

\* sqlite3BtreeCursorZero, btree.c:360-364: the fields before hints are
\* zeroed, pKeyInfo and pTaCursor are left as they are.
sqlite3BtreeCursorZero(pCur) ==
    [pCur EXCEPT !.pBtree = 0, !.pKey = 0, !.pgnoRoot = 0, !.skipNext = 0,
                 !.curFlags = {}, !.eState = 0]

\* A cursor as the engine allocates and zeroes it.
AllocatedCursor ==
    sqlite3BtreeCursorZero(
        [pBtree |-> Uninitialized, pKey |-> Uninitialized,
         pgnoRoot |-> Uninitialized, skipNext |-> Uninitialized,
         curFlags |-> {}, eState |-> Uninitialized,
         pKeyInfo |-> Uninitialized, pTaCursor |-> Uninitialized])

\* What a call returns and leaves in *pCur; abort is set when an assertion
\* failed in a build that has them (NDEBUG not defined).
Opened(rc, pCur) == [rc |-> rc, pCur |-> pCur, abort |-> FALSE]
Aborted(pCur) == [rc |-> "SIGABRT", pCur |-> pCur, abort |-> TRUE]

\* btreeCursor, btree.c:278-301.
btreeCursor(p, iTable, wrFlag, pKeyInfo, pCur) ==
    IF ~db.NDEBUG /\ ~(wrFlag \in WrFlags /\ btree[p].inTrans > TRANS_NONE)
    THEN Aborted(pCur)
    ELSE Opened("SQLITE_OK",
                [pCur EXCEPT !.pgnoRoot = iTable, !.pKeyInfo = pKeyInfo,
                             !.pBtree = p, !.eState = CURSOR_INVALID])

\* sqlite3BtreeCursor that binds the cursor before it looks at the root page.
sqlite3BtreeCursor_late_check(p, iTable, wrFlag, pKeyInfo, pCur) ==
    LET out == btreeCursor(p, iTable, wrFlag, pKeyInfo, pCur)
    IN  IF out.abort THEN out
        ELSE IF iTable < 1 THEN Opened("SQLITE_CORRUPT", out.pCur)
        ELSE IF db.mdb.pBt = p
        THEN Opened(out.rc, [out.pCur EXCEPT !.curFlags = @ \cup BTCF_TaCursor,
                                            !.pTaCursor = 0])
        ELSE out

\* sqlite3BtreeCursor, btree.c:303-325.
sqlite3BtreeCursor(p, iTable, wrFlag, pKeyInfo, pCur) ==
    IF iTable < 1
    THEN Opened("SQLITE_CORRUPT", pCur)
    ELSE LET out == btreeCursor(p, iTable, wrFlag, pKeyInfo, pCur)
         IN  IF out.abort THEN out
             ELSE IF db.mdb.pBt = p
             THEN Opened(out.rc, [out.pCur EXCEPT !.curFlags = @ \cup BTCF_TaCursor,
                                                 !.pTaCursor = 0])
             ELSE out

\* sqlite3BtreeCursorEphemeral that tags the cursor as one of the main
\* database.
sqlite3BtreeCursorEphemeral_main_tag(p, iTable, wrFlag, pKeyInfo, pCur) ==
    LET out == btreeCursor(p, iTable, wrFlag, pKeyInfo, pCur)
    IN  IF out.abort THEN out
        ELSE Opened("SQLITE_OK",
                    [out.pCur EXCEPT !.curFlags = @ \cup BTCF_TaCursor,
                                     !.pTaCursor = 0])

\* sqlite3BtreeCursorEphemeral, btree.c:327-336.
sqlite3BtreeCursorEphemeral(p, iTable, wrFlag, pKeyInfo, pCur) ==
    LET out == btreeCursor(p, iTable, wrFlag, pKeyInfo, pCur)
    IN  IF out.abort THEN out
        ELSE Opened("SQLITE_OK",
                    [out.pCur EXCEPT !.curFlags = @ \cup BTCF_TEphemCursor,
                                     !.pTaCursor = 0])

\* The most recent call: the handle and the cursor it was made on (0 when it
\* has none), its arguments and what it returned.
SqlCall(op, p, c, iTable, wrFlag, rc) ==
    [op |-> op, p |-> p, c |-> c, iTable |-> iTable, wrFlag |-> wrFlag, rc |-> rc]

\* sqlite3BtreeBeginTrans, btree.c:167-175.
BtreeBeginTrans(p, wrflag) ==
    /\ ~db.aborted
    /\ btree' = [btree EXCEPT ![p].inTrans =
                    IF wrflag # 0 THEN TRANS_WRITE ELSE TRANS_READ]
    /\ sql_last' = SqlCall("begin", p, 0, 0,
                           IF wrflag # 0 THEN BTREE_WRCSR ELSE {}, "SQLITE_OK")
    /\ UNCHANGED <<cursors, db, tarantool>>

\* btreeEndTransaction that leaves a read transaction whenever other
\* statements read, whatever the state of the handle was.
btreeEndTransaction_ignores_state(p) ==
    IF db.nVdbeRead > 1
    THEN [btree EXCEPT ![p].inTrans = TRANS_READ]
    ELSE [btree EXCEPT ![p].inTrans = TRANS_NONE]

\* btreeEndTransaction, btree.c:181-191.
btreeEndTransaction(p) ==
    IF btree[p].inTrans > TRANS_NONE /\ db.nVdbeRead > 1
    THEN [btree EXCEPT ![p].inTrans = TRANS_READ]
    ELSE [btree EXCEPT ![p].inTrans = TRANS_NONE]

\* sqlite3BtreeRollback, btree.c:204-212.
BtreeRollback(p) ==
    /\ ~db.aborted
    /\ btree' = btreeEndTransaction(p)
    /\ sql_last' = SqlCall("rollback", p, 0, 0, {}, "SQLITE_OK")
    /\ UNCHANGED <<cursors, db, tarantool>>

\* A statement that reads starts or ends: db->nVdbeRead changes.
VdbeRead(n) ==
    /\ ~db.aborted
    /\ db.nVdbeRead # n
    /\ db' = [db EXCEPT !.nVdbeRead = n]
    /\ sql_last' = SqlCall("vdbe", 0, 0, 0, {}, "SQLITE_OK")
    /\ UNCHANGED <<btree, cursors, tarantool>>

\* The engine zeroes a cursor to use it again.
BtreeCursorZero(c) ==
    /\ ~db.aborted
    /\ cursors' = [cursors EXCEPT ![c] = sqlite3BtreeCursorZero(@)]
    /\ sql_last' = SqlCall("zero", 0, c, 0, {}, "SQLITE_OK")
    /\ UNCHANGED <<btree, db, tarantool>>

\* A call of sqlite3BtreeCursor.
BtreeCursor(p, iTable, wrFlag, pKeyInfo, c) ==
    /\ ~db.aborted
    /\ LET out == sqlite3BtreeCursor(p, iTable, wrFlag, pKeyInfo, cursors[c])
       IN  /\ cursors' = [cursors EXCEPT ![c] = out.pCur]
           /\ db' = [db EXCEPT !.aborted = out.abort]
           /\ sql_last' = SqlCall("open", p, c, iTable, wrFlag, out.rc)
    /\ UNCHANGED <<btree, tarantool>>

\* A call of sqlite3BtreeCursorEphemeral.
BtreeCursorEphemeral(p, iTable, wrFlag, pKeyInfo, c) ==
    /\ ~db.aborted
    /\ LET out == sqlite3BtreeCursorEphemeral(p, iTable, wrFlag, pKeyInfo,
                                              cursors[c])
       IN  /\ cursors' = [cursors EXCEPT ![c] = out.pCur]
           /\ db' = [db EXCEPT !.aborted = out.abort]
           /\ sql_last' = SqlCall("open_ephemeral", p, c, iTable, wrFlag, out.rc)
    /\ UNCHANGED <<btree, tarantool>>

\* The connection with its two handles after sqlite3BtreeOpen
\* (btree.c:101-130), in a build with or without assertions.
\* The storage with no row in the table of the main database and none in
\* the ephemeral table.
NoRows == [main |-> 0, ephemeral |-> 0]

OutsideSql ==
    <<defs, sequence_data_index, last, history, issued, checked, encoded, snapshot>>

InitBtree ==
    /\ defs = <<>>
    /\ sequence_data_index = {}
    /\ last = Call("init", 0, 0, 0, 0, 0, "none", "none", FALSE)
    /\ history = <<>>
    /\ issued = NoneIssued
    /\ checked = NoCheck
    /\ encoded = NoTuple
    /\ snapshot = NoSnapshot
    /\ btree = [p \in Btrees |-> [inTrans |-> TRANS_NONE]]
    /\ cursors = [c \in Cursors |-> AllocatedCursor]
    /\ \E ndebug \in BOOLEAN, n \in VdbeReads :
          db = [open |-> TRUE, mdb |-> [pBt |-> MainBtree], nVdbeRead |-> n,
                NDEBUG |-> ndebug, aborted |-> FALSE]
    /\ tarantool = NoRows
    /\ sql_last = SqlCall("init", 0, 0, 0, {}, "SQLITE_OK")

NextBtree ==
    \/ /\ \E p \in Btrees, wrflag \in {0, 1} : BtreeBeginTrans(p, wrflag)
       /\ UNCHANGED OutsideSql
    \/ /\ \E p \in Btrees : BtreeRollback(p)
       /\ UNCHANGED OutsideSql
    \/ /\ \E n \in VdbeReads : VdbeRead(n)
       /\ UNCHANGED OutsideSql
    \/ /\ \E c \in Cursors : BtreeCursorZero(c)
       /\ UNCHANGED OutsideSql
    \/ /\ \E p \in Btrees, iTable \in RootIds, wrFlag \in WrFlags,
              pKeyInfo \in KeyInfos, c \in Cursors :
              BtreeCursor(p, iTable, wrFlag, pKeyInfo, c)
       /\ UNCHANGED OutsideSql
    \/ /\ \E p \in Btrees, iTable \in RootIds, wrFlag \in WrFlags,
              pKeyInfo \in KeyInfos, c \in Cursors :
              BtreeCursorEphemeral(p, iTable, wrFlag, pKeyInfo, c)
       /\ UNCHANGED OutsideSql

SpecBtree == InitBtree /\ [][NextBtree]_vars

\* The transaction state of the handle of the most recent call.
LastInTrans == btree[sql_last.p].inTrans

\* C18 as stated: open succeeds only when the transaction state of the
\* owning handle is not NONE, and a cursor opened with the write flag is
\* produced only when the transaction state is WRITE.
C18_Original ==
    (sql_last.op = "open" /\ sql_last.rc = "SQLITE_OK") =>
       /\ LastInTrans # TRANS_NONE
       /\ (BTREE_WRCSR \subseteq sql_last.wrFlag) => LastInTrans = TRANS_WRITE

\* C19: open with root_id < 1 fails with Corrupt, whatever the transaction
\* state and the write flag, and leaves the cursor unbound: its state, root
\* identifier, owning handle and backend flags are what they were before
\* the call.
C19_CorruptRoot ==
    [][ (sql_last'.op = "open" /\ sql_last'.iTable < 1) =>
          /\ sql_last'.rc = "SQLITE_CORRUPT"
          /\ ~db'.aborted
          /\ cursors' = cursors
          /\ btree' = btree ]_vars

\* open with root 0 and the write flag has failed on a handle without
\* transaction, in a build with assertions, on a cursor bound before.
C19_Witness ==
    /\ sql_last.op = "open" /\ sql_last.iTable < 1
    /\ sql_last.rc = "SQLITE_CORRUPT"
    /\ BTREE_WRCSR \subseteq sql_last.wrFlag
    /\ LastInTrans = TRANS_NONE /\ ~db.NDEBUG
    /\ cursors[sql_last.c].pBtree # 0
    /\ cursors[sql_last.c].curFlags # {}

\* C20 as stated: open_ephemeral binds the cursor to a private ephemeral
\* table and places no requirement on the transaction state of the handle:
\* it succeeds whether the state is NONE, READ or WRITE.
C20_Original ==
    sql_last.op = "open_ephemeral" =>
       /\ sql_last.rc = "SQLITE_OK"
       /\ BTCF_TEphemCursor \subseteq cursors[sql_last.c].curFlags
       /\ cursors[sql_last.c].pBtree = sql_last.p

\* C20: open_ephemeral binds the cursor to a private ephemeral table; it
\* goes through btreeCursor and so carries the assertion of open that the
\* transaction state is not NONE: it succeeds when the state is READ or
\* WRITE, and when the state is NONE it succeeds in a build without
\* assertions and aborts, leaving the cursor as it was, in a build with them.
C20_EphemeralOpen ==
    [][ sql_last'.op = "open_ephemeral" =>
          LET p == sql_last'.p
              c == sql_last'.c
          IN  IF btree[p].inTrans = TRANS_NONE /\ ~db.NDEBUG
              THEN /\ db'.aborted
                   /\ sql_last'.rc # "SQLITE_OK"
                   /\ cursors' = cursors
              ELSE /\ ~db'.aborted
                   /\ sql_last'.rc = "SQLITE_OK"
                   /\ BTCF_TEphemCursor \subseteq cursors'[c].curFlags
                   /\ cursors'[c].curFlags \ BTCF_TEphemCursor = cursors[c].curFlags \ BTCF_TEphemCursor
                   /\ cursors'[c].pBtree = p
                   /\ cursors'[c].pgnoRoot = sql_last'.iTable
                   /\ cursors'[c].eState = CURSOR_INVALID
                   /\ cursors'[c].pTaCursor = 0 ]_vars

\* open_ephemeral has bound a zeroed cursor on a handle in a read
\* transaction.
C20_Witness ==
    /\ sql_last.op = "open_ephemeral" /\ sql_last.rc = "SQLITE_OK"
    /\ LastInTrans = TRANS_READ
    /\ cursors[sql_last.c].curFlags = BTCF_TEphemCursor
    /\ cursors[sql_last.c].pBtree = sql_last.p

\* C22 as stated: begin moves the state from NONE to READ for a read-only
\* begin and from NONE to WRITE for a write begin, and never lowers it: a
\* read-only begin on a handle in WRITE leaves it in WRITE.
C22_Original ==
    [][ sql_last'.op = "begin" =>
          LET p == sql_last'.p
              write == BTREE_WRCSR \subseteq sql_last'.wrFlag
          IN  /\ btree[p].inTrans = TRANS_NONE =>
                    btree'[p].inTrans = IF write THEN TRANS_WRITE ELSE TRANS_READ
              /\ btree'[p].inTrans >= btree[p].inTrans ]_vars

\* The handles in a write transaction.
Writers == {p \in Btrees : btree[p].inTrans = TRANS_WRITE}

\* C23 as stated: begin fails when a write transaction is active on another
\* handle, so at most one handle is in state WRITE at any time.
C23_Original ==
    [][ /\ (/\ sql_last'.op = "begin"
            /\ Writers \ {sql_last'.p} # {})
           => (sql_last'.rc # "SQLITE_OK" /\ btree' = btree)
        /\ Cardinality(Writers') <= 1 ]_vars

\* C24: rollback leaves the handle in READ if it was in a transaction and
\* other reading statements remain (db->nVdbeRead > 1), and in NONE
\* otherwise; a handle in NONE stays in NONE, the state after rollback is
\* never WRITE, and no other handle changes.
C24_EndTransaction ==
    [][ sql_last'.op = "rollback" =>
          LET p == sql_last'.p
          IN  /\ btree'[p].inTrans =
                    IF btree[p].inTrans # TRANS_NONE /\ db.nVdbeRead > 1
                    THEN TRANS_READ ELSE TRANS_NONE
              /\ btree[p].inTrans = TRANS_NONE => btree'[p].inTrans = TRANS_NONE
              /\ btree'[p].inTrans # TRANS_WRITE
              /\ \A q \in Btrees \ {p} : btree'[q] = btree[q]
              /\ sql_last'.rc = "SQLITE_OK" ]_vars

\* A rollback has left a handle in READ while other statements read, and
\* the other handle is still in its write transaction.
C24_Witness ==
    /\ sql_last.op = "rollback"
    /\ LastInTrans = TRANS_READ
    /\ db.nVdbeRead > 1
    /\ \E q \in Btrees \ {sql_last.p} : btree[q].inTrans = TRANS_WRITE

-----------------------------------------------------------------------------
(* Cursor operations of src/box/sql/btree.c and the storage they reach.    *)

\* Rows a table holds at most.
MaxRows == 1

\* The error code a faulted cursor stores in skipNext: out of memory.
SQLITE_NOMEM == 7

\* The name of an error code kept as a number (BtCursor.skipNext).
RcName(code) ==
    IF code = 0 THEN "SQLITE_OK"
    ELSE IF code = SQLITE_NOMEM THEN "SQLITE_NOMEM"
    ELSE "SQLITE_ERROR"

\* BtCursor.pTaCursor, the handle the storage keeps for a cursor: 0 is no
\* handle, Freed a released one, TaCursor(pos) a handle that stands on row
\* pos of the table (0: on no row).
Freed == -2
TaCursor(pos) == pos + 1
TaPos(pTaCursor) == IF pTaCursor >= 1 THEN pTaCursor - 1 ELSE 0

\* What a call of the storage returns: its code, the cursor and the tables
\* as it leaves them, and what it stored through its result pointer.
Done(rc, pCur, t, res) == [rc |-> rc, pCur |-> pCur, t |-> t, res |-> res]

\* The cursor on row pos of its table, or on no row.
Positioned(pCur, pos) ==
    [pCur EXCEPT !.eState = IF pos = 0 THEN CURSOR_INVALID ELSE CURSOR_VALID,
                 !.skipNext = 0, !.pTaCursor = TaCursor(pos)]

\* first: position at the first row; *pRes = 1 and INVALID on an empty table.
tarantoolSqlite3First(pCur, t, tab) ==
    IF t[tab] = 0
    THEN Done("SQLITE_OK", Positioned(pCur, 0), t, 1)
    ELSE Done("SQLITE_OK", Positioned(pCur, 1), t, 0)

\* last: position at the last row; *pRes = 1 and INVALID on an empty table.
tarantoolSqlite3Last(pCur, t, tab) ==
    IF t[tab] = 0
    THEN Done("SQLITE_OK", Positioned(pCur, 0), t, 1)
    ELSE Done("SQLITE_OK", Positioned(pCur, t[tab]), t, 0)

\* seek: lands on some row, the comparison result telling where the row
\* stands against the key; after an exact match the cursor may be left in
\* SKIPNEXT, in either direction.
tarantoolSqlite3MovetoUnpacked(pCur, t, tab) ==
    IF t[tab] = 0
    THEN {Done("SQLITE_OK", Positioned(pCur, 0), t, -1)}
    ELSE { Done("SQLITE_OK", Positioned(pCur, pos), t, res) :
              pos \in 1..t[tab], res \in {-1, 0, 1} }
         \cup
         { Done("SQLITE_OK",
                [Positioned(pCur, pos) EXCEPT !.eState = CURSOR_SKIPNEXT,
                                              !.skipNext = dir], t, 0) :
              pos \in 1..t[tab], dir \in {-1, 1} }

\* next: a no-op on a cursor in SKIPNEXT with a positive skipNext, else a
\* move to the following row; *pRes = 1 when there is none.
tarantoolSqlite3Next(pCur, t, tab) ==
    LET pos == TaPos(pCur.pTaCursor)
    IN  IF pCur.eState = CURSOR_SKIPNEXT /\ pCur.skipNext > 0
        THEN Done("SQLITE_OK", Positioned(pCur, pos), t, 0)
        ELSE IF pCur.eState \in {CURSOR_VALID, CURSOR_SKIPNEXT}
                /\ pos >= 1 /\ pos < t[tab]
        THEN Done("SQLITE_OK", Positioned(pCur, pos + 1), t, 0)
        ELSE Done("SQLITE_OK", Positioned(pCur, 0), t, 1)

\* previous: a no-op on a cursor in SKIPNEXT with a negative skipNext, else
\* a move to the preceding row; *pRes = 1 when there is none.
tarantoolSqlite3Previous(pCur, t, tab) ==
    LET pos == TaPos(pCur.pTaCursor)
    IN  IF pCur.eState = CURSOR_SKIPNEXT /\ pCur.skipNext < 0
        THEN Done("SQLITE_OK", Positioned(pCur, pos), t, 0)
        ELSE IF pCur.eState \in {CURSOR_VALID, CURSOR_SKIPNEXT} /\ pos > 1
        THEN Done("SQLITE_OK", Positioned(pCur, pos - 1), t, 0)
        ELSE Done("SQLITE_OK", Positioned(pCur, 0), t, 1)

\* insert: the table gains the row, or has it replaced when it is full.
tarantoolSqlite3Insert(pCur, t, tab) ==
    Done("SQLITE_OK", Positioned(pCur, 0),
         [t EXCEPT ![tab] = IF @ < MaxRows THEN @ + 1 ELSE @], 0)

\* delete: the row the handle stands on leaves the table.
tarantoolSqlite3Delete(pCur, t, tab) ==
    LET pos == TaPos(pCur.pTaCursor)
    IN  IF pos >= 1 /\ pos <= t[tab]
        THEN Done("SQLITE_OK", Positioned(pCur, 0), [t EXCEPT ![tab] = @ - 1], 0)
        ELSE Done("SQLITE_OK", pCur, t, 0)

\* count: the number of rows of the table, wherever the cursor stands.
tarantoolSqlite3Count(pCur, t, tab) == Done("SQLITE_OK", pCur, t, t[tab])

\* payload_fetch: a view of the row the handle stands on (0: of no row).
tarantoolSqlite3PayloadFetch(pCur, t, tab) ==
    Done("SQLITE_OK", pCur, t, TaPos(pCur.pTaCursor))

\* The ephemeral table is dropped.
tarantoolSqlite3EphemeralDrop(pCur, t) ==
    Done("SQLITE_OK", pCur, [t EXCEPT !.ephemeral = 0], 0)

\* The handle of the cursor is released.
tarantoolSqlite3CloseCursor(pCur, t) ==
    Done("SQLITE_OK", [pCur EXCEPT !.pTaCursor = Freed], t, 0)

\* What a call on a cursor returns: its code, the cursor and the tables as
\* it leaves them, what it stored through its result pointer, and the calls
\* it made to the storage; abort is set when the process was ended.
Called(rc, pCur, t, res, calls) ==
    [rc |-> rc, pCur |-> pCur, t |-> t, res |-> res, calls |-> calls,
     abort |-> FALSE]
Crashed(pCur, t) ==
    [rc |-> "SIGABRT", pCur |-> pCur, t |-> t, res |-> 0, calls |-> <<>>,
     abort |-> TRUE]
Forward(d, calls) == Called(d.rc, d.pCur, d.t, d.res, calls)

\* unreachable(): assert(0) in a build with assertions; without them the
\* behaviour is undefined, and the build either ends the process or falls
\* through to the return statement that follows.
unreachable(pCur, t, rc) ==
    IF db.NDEBUG
    THEN {Crashed(pCur, t), Called(rc, pCur, t, 0, <<>>)}
    ELSE {Crashed(pCur, t)}

\* assert(cond): ends the process in a build with assertions.
AssertFails(cond) == ~db.NDEBUG /\ ~cond

HasFlag(pCur, flag) == BitAnd(pCur.curFlags, flag) # {}

\* sqlite3BtreeClearCursor, btree.c:44-50.
sqlite3BtreeClearCursor(pCur) ==
    [pCur EXCEPT !.pKey = 0, !.eState = CURSOR_INVALID]

\* sqlite3BtreeCloseCursor that drops the table of every cursor it closes.
sqlite3BtreeCloseCursor_drops_all(pCur, t) ==
    LET cleared == IF pCur.pBtree # 0 THEN sqlite3BtreeClearCursor(pCur) ELSE pCur
        dropped == tarantoolSqlite3EphemeralDrop(cleared, t)
        closed == tarantoolSqlite3CloseCursor(dropped.pCur, dropped.t)
    IN  {Forward(closed, <<"tarantoolSqlite3EphemeralDrop",
                           "tarantoolSqlite3CloseCursor">>)}

\* sqlite3BtreeCloseCursor, btree.c:370-386.
sqlite3BtreeCloseCursor(pCur, t) ==
    LET cleared == IF pCur.pBtree # 0 THEN sqlite3BtreeClearCursor(pCur) ELSE pCur
    IN  IF HasFlag(cleared, BTCF_TaCursor)
        THEN {Forward([tarantoolSqlite3CloseCursor(cleared, t) EXCEPT !.rc = "SQLITE_OK"],
                      <<"tarantoolSqlite3CloseCursor">>)}
        ELSE IF HasFlag(cleared, BTCF_TEphemCursor)
        THEN LET dropped == tarantoolSqlite3EphemeralDrop(cleared, t)
                 closed == tarantoolSqlite3CloseCursor(dropped.pCur, dropped.t)
             IN  {Forward([closed EXCEPT !.rc = "SQLITE_OK"],
                          <<"tarantoolSqlite3EphemeralDrop",
                            "tarantoolSqlite3CloseCursor">>)}
        ELSE {Called("SQLITE_OK", cleared, t, 0, <<>>)}

\* sqlite3BtreePayloadFetch, btree.c:522-531.
sqlite3BtreePayloadFetch(pCur, t) ==
    IF HasFlag(pCur, BTCF_TaCursor) \/ HasFlag(pCur, BTCF_TEphemCursor)
    THEN {Forward(tarantoolSqlite3PayloadFetch(pCur, t,
                     IF HasFlag(pCur, BTCF_TaCursor) THEN "main" ELSE "ephemeral"),
                  <<"tarantoolSqlite3PayloadFetch">>)}
    ELSE unreachable(pCur, t, "SQLITE_OK")

\* sqlite3BtreeFirst that returns before it positions the cursor.
sqlite3BtreeFirst_no_move(pCur, t) ==
    IF HasFlag(pCur, BTCF_TaCursor) \/ HasFlag(pCur, BTCF_TEphemCursor)
    THEN {Called("SQLITE_OK", pCur, t, 0, <<>>)}
    ELSE unreachable(pCur, t, "SQLITE_TARANTOOL_ERROR")

\* sqlite3BtreeFirst, btree.c:537-549.
sqlite3BtreeFirst(pCur, t) ==
    IF HasFlag(pCur, BTCF_TaCursor)
    THEN {Forward(tarantoolSqlite3First(pCur, t, "main"),
                  <<"tarantoolSqlite3First">>)}
    ELSE IF HasFlag(pCur, BTCF_TEphemCursor)
    THEN {Forward(tarantoolSqlite3First(pCur, t, "ephemeral"),
                  <<"tarantoolSqlite3EphemeralFirst">>)}
    ELSE unreachable(pCur, t, "SQLITE_TARANTOOL_ERROR")

\* sqlite3BtreeLast, btree.c:555-567.
sqlite3BtreeLast(pCur, t) ==
    IF HasFlag(pCur, BTCF_TaCursor)
    THEN {Forward(tarantoolSqlite3Last(pCur, t, "main"),
                  <<"tarantoolSqlite3Last">>)}
    ELSE IF HasFlag(pCur, BTCF_TEphemCursor)
    THEN {Forward(tarantoolSqlite3Last(pCur, t, "ephemeral"),
                  <<"tarantoolSqlite3EphemeralLast">>)}
    ELSE unreachable(pCur, t, "SQLITE_TARANTOOL_ERROR")

\* sqlite3BtreeMovetoUnpacked, btree.c:599-631.  curIntKey is set by no
\* function of the file: the second assertion reads an indeterminate value.
sqlite3BtreeMovetoUnpacked(pCur, t, pIdxKey) ==
    UNION { IF \/ AssertFails((pIdxKey = 0) = (pCur.pKeyInfo = 0))
               \/ AssertFails(pCur.eState # CURSOR_VALID
                              \/ (pIdxKey = 0) = (curIntKey # 0))
            THEN {Crashed(pCur, t)}
            ELSE IF HasFlag(pCur, BTCF_TaCursor)
            THEN IF AssertFails(pIdxKey # 0) THEN {Crashed(pCur, t)}
                 ELSE { Forward(d, <<"tarantoolSqlite3MovetoUnpacked">>) :
                          d \in tarantoolSqlite3MovetoUnpacked(pCur, t, "main") }
            ELSE IF HasFlag(pCur, BTCF_TEphemCursor)
            THEN IF AssertFails(pIdxKey # 0) THEN {Crashed(pCur, t)}
                 ELSE { Forward(d, <<"tarantoolSqlite3MovetoUnpackedEphemeral">>) :
                          d \in tarantoolSqlite3MovetoUnpacked(pCur, t, "ephemeral") }
            ELSE unreachable(pCur, t, "SQLITE_TARANTOOL_ERROR")
          : curIntKey \in {0, 1} }

\* sqlite3BtreeNext that moves without looking at the skip marker.
sqlite3BtreeNext_no_skip(pCur, t) ==
    IF AssertFails(pCur.skipNext = 0 \/ pCur.eState # CURSOR_VALID)
    THEN {Crashed(pCur, t)}
    ELSE IF HasFlag(pCur, BTCF_TaCursor) \/ HasFlag(pCur, BTCF_TEphemCursor)
    THEN LET tab == IF HasFlag(pCur, BTCF_TEphemCursor) THEN "ephemeral" ELSE "main"
         IN  {Forward(tarantoolSqlite3Next([pCur EXCEPT !.skipNext = 0], t, tab),
                      <<"tarantoolSqlite3Next">>)}
    ELSE unreachable(pCur, t, "SQLITE_TARANTOOL_ERROR")

\* sqlite3BtreeNext, btree.c:650-665.
sqlite3BtreeNext(pCur, t) ==
    IF AssertFails(pCur.skipNext = 0 \/ pCur.eState # CURSOR_VALID)
    THEN {Crashed(pCur, t)}
    ELSE IF HasFlag(pCur, BTCF_TaCursor) \/ HasFlag(pCur, BTCF_TEphemCursor)
    THEN IF HasFlag(pCur, BTCF_TEphemCursor)
         THEN {Forward(tarantoolSqlite3Next(pCur, t, "ephemeral"),
                       <<"tarantoolSqlite3EphemeralNext">>)}
         ELSE {Forward(tarantoolSqlite3Next(pCur, t, "main"),
                       <<"tarantoolSqlite3Next">>)}
    ELSE unreachable(pCur, t, "SQLITE_TARANTOOL_ERROR")

\* sqlite3BtreePrevious, btree.c:667-682.
sqlite3BtreePrevious(pCur, t) ==
    IF AssertFails(pCur.skipNext = 0 \/ pCur.eState # CURSOR_VALID)
    THEN {Crashed(pCur, t)}
    ELSE IF HasFlag(pCur, BTCF_TaCursor)
    THEN {Forward(tarantoolSqlite3Previous(pCur, t, "main"),
                  <<"tarantoolSqlite3Previous">>)}
    ELSE IF HasFlag(pCur, BTCF_TEphemCursor)
    THEN {Forward(tarantoolSqlite3Previous(pCur, t, "ephemeral"),
                  <<"tarantoolSqlite3EphemeralPrevious">>)}
    ELSE unreachable(pCur, t, "SQLITE_TARANTOOL_ERROR")

\* sqlite3BtreeInsert, btree.c:685-717; pXKey is pX->pKey.
sqlite3BtreeInsert(pCur, t, pXKey) ==
    IF pCur.eState = CURSOR_FAULT
    THEN IF AssertFails(pCur.skipNext # 0)
         THEN {Crashed(pCur, t)}
         ELSE {Called(RcName(pCur.skipNext), pCur, t, 0, <<>>)}
    ELSE IF AssertFails((pXKey = 0) = (pCur.pKeyInfo = 0))
    THEN {Crashed(pCur, t)}
    ELSE IF HasFlag(pCur, BTCF_TaCursor)
    THEN {Forward(tarantoolSqlite3Insert(pCur, t, "main"),
                  <<"tarantoolSqlite3Insert">>)}
    ELSE IF HasFlag(pCur, BTCF_TEphemCursor)
    THEN {Forward(tarantoolSqlite3Insert(pCur, t, "ephemeral"),
                  <<"tarantoolSqlite3EphemeralInsert">>)}
    ELSE unreachable(pCur, t, "SQLITE_TARANTOOL_ERROR")

\* sqlite3BtreeDelete that forwards without its assertion.
sqlite3BtreeDelete_unchecked(pCur, t) ==
    IF HasFlag(pCur, BTCF_TaCursor)
    THEN {Forward(tarantoolSqlite3Delete(pCur, t, "main"),
                  <<"tarantoolSqlite3Delete">>)}
    ELSE IF HasFlag(pCur, BTCF_TEphemCursor)
    THEN {Forward(tarantoolSqlite3Delete(pCur, t, "ephemeral"),
                  <<"tarantoolSqlite3EphemeralDelete">>)}
    ELSE unreachable(pCur, t, "SQLITE_TARANTOOL_ERROR")

\* sqlite3BtreeDelete, btree.c:719-733.
sqlite3BtreeDelete(pCur, t) ==
    IF AssertFails(pCur.eState = CURSOR_VALID)
    THEN {Crashed(pCur, t)}
    ELSE IF HasFlag(pCur, BTCF_TaCursor)
    THEN {Forward(tarantoolSqlite3Delete(pCur, t, "main"),
                  <<"tarantoolSqlite3Delete">>)}
    ELSE IF HasFlag(pCur, BTCF_TEphemCursor)
    THEN {Forward(tarantoolSqlite3Delete(pCur, t, "ephemeral"),
                  <<"tarantoolSqlite3EphemeralDelete">>)}
    ELSE unreachable(pCur, t, "SQLITE_TARANTOOL_ERROR")

\* sqlite3BtreeCount, btree.c:762-774.
sqlite3BtreeCount(pCur, t) ==
    IF HasFlag(pCur, BTCF_TaCursor)
    THEN {Forward(tarantoolSqlite3Count(pCur, t, "main"),
                  <<"tarantoolSqlite3Count">>)}
    ELSE IF HasFlag(pCur, BTCF_TEphemCursor)
    THEN {Forward(tarantoolSqlite3Count(pCur, t, "ephemeral"),
                  <<"tarantoolSqlite3EphemeralCount">>)}
    ELSE unreachable(pCur, t, "SQLITE_TARANTOOL_ERROR")

\* A call on an opened cursor the engine has not closed: one of its
\* outcomes happens.
CursorCall(op, c, outs) ==
    /\ ~db.aborted
    /\ cursors[c].pBtree # 0
    /\ cursors[c].pTaCursor # Freed
    /\ \E out \in outs :
          /\ cursors' = [cursors EXCEPT ![c] = out.pCur]
          /\ tarantool' = out.t
          /\ db' = [db EXCEPT !.aborted = out.abort]
          /\ sql_last' = [op |-> op, p |-> cursors[c].pBtree, c |-> c,
                          iTable |-> 0, wrFlag |-> {}, rc |-> out.rc,
                          res |-> out.res, calls |-> out.calls]
    /\ UNCHANGED btree

\* The storage fails under a positioned or unpositioned cursor and leaves it
\* in FAULT with the error code in skipNext.
CursorFault(c) ==
    /\ ~db.aborted
    /\ cursors[c].pBtree # 0
    /\ cursors[c].pTaCursor # Freed
    /\ cursors[c].eState # CURSOR_FAULT
    /\ cursors' = [cursors EXCEPT ![c].eState = CURSOR_FAULT,
                                  ![c].skipNext = SQLITE_NOMEM]
    /\ sql_last' = [op |-> "fault", p |-> cursors[c].pBtree, c |-> c,
                    iTable |-> 0, wrFlag |-> {}, rc |-> "SQLITE_NOMEM",
                    res |-> 0, calls |-> <<>>]
    /\ UNCHANGED <<btree, db, tarantool>>

\* A change of the table under a positioned cursor: its position is saved
\* in pKey and the cursor moves to REQUIRESEEK.
CursorSavePosition(c) ==
    /\ ~db.aborted
    /\ cursors[c].pBtree # 0
    /\ cursors[c].pTaCursor # Freed
    /\ cursors[c].eState \in {CURSOR_VALID, CURSOR_SKIPNEXT}
    /\ cursors' = [cursors EXCEPT ![c].eState = CURSOR_REQUIRESEEK,
                                  ![c].skipNext = 0, ![c].pKey = 1]
    /\ sql_last' = [op |-> "save", p |-> cursors[c].pBtree, c |-> c,
                    iTable |-> 0, wrFlag |-> {}, rc |-> "SQLITE_OK",
                    res |-> 0, calls |-> <<>>]
    /\ UNCHANGED <<btree, db, tarantool>>

\* The connection after sqlite3BtreeOpen of its two handles, over a main
\* table with or without rows, in a build with or without assertions.
InitCursor ==
    /\ defs = <<>>
    /\ sequence_data_index = {}
    /\ last = Call("init", 0, 0, 0, 0, 0, "none", "none", FALSE)
    /\ history = <<>>
    /\ issued = NoneIssued
    /\ checked = NoCheck
    /\ encoded = NoTuple
    /\ snapshot = NoSnapshot
    /\ btree = [p \in Btrees |-> [inTrans |-> TRANS_NONE]]
    /\ cursors = [c \in Cursors |-> AllocatedCursor]
    /\ \E ndebug \in BOOLEAN :
          db = [open |-> TRUE, mdb |-> [pBt |-> MainBtree], nVdbeRead |-> 1,
                NDEBUG |-> ndebug, aborted |-> FALSE]
    /\ \E n \in 0..MaxRows : tarantool = [main |-> n, ephemeral |-> 0]
    /\ sql_last = SqlCall("init", 0, 0, 0, {}, "SQLITE_OK")

\* The engine zeroes a cursor before it opens it (btree.c:274-275), opens
\* tables of the main database at root page 1, and passes a key to seek.
NextCursor ==
    \/ /\ \E p \in Btrees, wrflag \in {0, 1} : BtreeBeginTrans(p, wrflag)
       /\ UNCHANGED OutsideSql
    \/ /\ \E p \in Btrees : BtreeRollback(p)
       /\ UNCHANGED OutsideSql
    \/ /\ \E c \in Cursors : BtreeCursorZero(c)
       /\ UNCHANGED OutsideSql
    \/ /\ \E p \in Btrees, wrFlag \in WrFlags, pKeyInfo \in KeyInfos, c \in Cursors :
             /\ cursors[c] = sqlite3BtreeCursorZero(cursors[c])
             /\ BtreeCursor(p, 1, wrFlag, pKeyInfo, c)
       /\ UNCHANGED OutsideSql
    \/ /\ \E p \in Btrees, wrFlag \in WrFlags, pKeyInfo \in KeyInfos, c \in Cursors :
             /\ cursors[c] = sqlite3BtreeCursorZero(cursors[c])
             /\ BtreeCursorEphemeral(p, 1, wrFlag, pKeyInfo, c)
       /\ UNCHANGED OutsideSql
    \/ /\ \E c \in Cursors :
             CursorCall("first", c, sqlite3BtreeFirst(cursors[c], tarantool))
       /\ UNCHANGED OutsideSql
    \/ /\ \E c \in Cursors :
             CursorCall("last", c, sqlite3BtreeLast(cursors[c], tarantool))
       /\ UNCHANGED OutsideSql
    \/ /\ \E c \in Cursors :
             CursorCall("seek", c,
                        sqlite3BtreeMovetoUnpacked(cursors[c], tarantool, 1))
       /\ UNCHANGED OutsideSql
    \/ /\ \E c \in Cursors :
             CursorCall("next", c, sqlite3BtreeNext(cursors[c], tarantool))
       /\ UNCHANGED OutsideSql
    \/ /\ \E c \in Cursors :
             CursorCall("previous", c, sqlite3BtreePrevious(cursors[c], tarantool))
       /\ UNCHANGED OutsideSql
    \/ /\ \E c \in Cursors, pXKey \in {0, 1} :
             CursorCall("insert", c,
                        sqlite3BtreeInsert(cursors[c], tarantool, pXKey))
       /\ UNCHANGED OutsideSql
    \/ /\ \E c \in Cursors :
             CursorCall("delete", c, sqlite3BtreeDelete(cursors[c], tarantool))
       /\ UNCHANGED OutsideSql
    \/ /\ \E c \in Cursors :
             CursorCall("count", c, sqlite3BtreeCount(cursors[c], tarantool))
       /\ UNCHANGED OutsideSql
    \/ /\ \E c \in Cursors :
             CursorCall("payload_fetch", c,
                        sqlite3BtreePayloadFetch(cursors[c], tarantool))
       /\ UNCHANGED OutsideSql
    \/ /\ \E c \in Cursors :
             CursorCall("close", c, sqlite3BtreeCloseCursor(cursors[c], tarantool))
       /\ UNCHANGED OutsideSql
    \/ /\ \E c \in Cursors : CursorFault(c)
       /\ UNCHANGED OutsideSql
    \/ /\ \E c \in Cursors : CursorSavePosition(c)
       /\ UNCHANGED OutsideSql

SpecCursor == InitCursor /\ [][NextCursor]_vars

\* The cursor of the most recent call, and the table its backend tag names.
LastCursor == cursors[sql_last.c]
Tagged(pCur) == HasFlag(pCur, BTCF_TaCursor) \/ HasFlag(pCur, BTCF_TEphemCursor)
TableOf(pCur) == IF HasFlag(pCur, BTCF_TaCursor) THEN "main" ELSE "ephemeral"
CallsOf(name, calls) == {i \in DOMAIN calls : calls[i] = name}

\* C21 as stated: no insert or delete issued through a cursor succeeds while
\* the transaction state of the handle that owns the cursor is NONE.
C21_Original ==
    (sql_last.op \in {"insert", "delete"} /\ sql_last.rc = "SQLITE_OK") =>
        btree[sql_last.p].inTrans # TRANS_NONE

\* C25 as stated: once a cursor bound to a backend is in FAULT, every
\* operation on it returns the stored fault code without reaching the
\* backend, and the cursor stays in FAULT.
C25_Original ==
    [][ (/\ sql_last'.op \in {"first", "last", "seek", "next", "previous",
                              "insert", "delete", "count", "payload_fetch"}
         /\ Tagged(cursors[sql_last'.c])
         /\ cursors[sql_last'.c].eState = CURSOR_FAULT)
        => /\ sql_last'.rc = RcName(cursors[sql_last'.c].skipNext)
           /\ sql_last'.calls = <<>>
           /\ cursors'[sql_last'.c].eState = CURSOR_FAULT ]_vars

\* C26 as stated: next, previous or payload_fetch on a cursor bound to a
\* backend and in INVALID is rejected before any backend call is made.
C26_Original ==
    [][ (/\ sql_last'.op \in {"next", "previous", "payload_fetch"}
         /\ Tagged(cursors[sql_last'.c])
         /\ cursors[sql_last'.c].eState = CURSOR_INVALID)
        => /\ sql_last'.calls = <<>>
           /\ sql_last'.rc # "SQLITE_OK" ]_vars

\* C27: first or last on a cursor that carries a backend tag reports
\* is_empty = 1 and leaves the cursor in INVALID when its table has no rows,
\* and reports is_empty = 0 and leaves the cursor in VALID when it has rows;
\* the tables are left as they were.
C27_FirstLast ==
    [][ (/\ sql_last'.op \in {"first", "last"}
         /\ Tagged(cursors[sql_last'.c]))
        => /\ sql_last'.rc = "SQLITE_OK"
           /\ ~db'.aborted
           /\ tarantool' = tarantool
           /\ IF tarantool[TableOf(cursors[sql_last'.c])] = 0
              THEN /\ sql_last'.res = 1
                   /\ cursors'[sql_last'.c].eState = CURSOR_INVALID
              ELSE /\ sql_last'.res = 0
                   /\ cursors'[sql_last'.c].eState = CURSOR_VALID ]_vars

\* last has found a row in the ephemeral table and left the cursor VALID.
C27_Witness ==
    /\ sql_last.op = "last"
    /\ HasFlag(LastCursor, BTCF_TEphemCursor)
    /\ tarantool.ephemeral > 0
    /\ sql_last.res = 0
    /\ LastCursor.eState = CURSOR_VALID

C29_SkipNext ==
    [][ (/\ sql_last'.op \in {"next", "previous"}
         /\ cursors[sql_last'.c].eState = CURSOR_SKIPNEXT
         /\ Tagged(cursors[sql_last'.c]))
        => LET pCur == cursors[sql_last'.c]
               after == cursors'[sql_last'.c]
               pos == TaPos(pCur.pTaCursor)
               rows == tarantool[TableOf(pCur)]
               forward == sql_last'.op = "next"
               target == IF forward
                         THEN (IF pos < rows THEN pos + 1 ELSE 0)
                         ELSE (IF pos > 1 THEN pos - 1 ELSE 0)
           IN  /\ ~db'.aborted
               /\ sql_last'.rc = "SQLITE_OK"
               /\ after.skipNext = 0
               /\ after.eState # CURSOR_SKIPNEXT
               /\ IF (forward /\ pCur.skipNext > 0) \/ (~forward /\ pCur.skipNext < 0)
                  THEN /\ TaPos(after.pTaCursor) = pos
                       /\ after.eState = CURSOR_VALID
                       /\ sql_last'.res = 0
                  ELSE /\ TaPos(after.pTaCursor) = target
                       /\ sql_last'.res = (IF target = 0 THEN 1 ELSE 0)
                       /\ after.eState = (IF target = 0 THEN CURSOR_INVALID
                                          ELSE CURSOR_VALID) ]_vars

\* next has reported a row on a table of one row: the cursor was on that
\* row in SKIPNEXT, and the call did not move it.
C29_Witness ==
    /\ sql_last.op = "next"
    /\ sql_last.res = 0
    /\ Tagged(LastCursor)
    /\ tarantool[TableOf(LastCursor)] = 1
    /\ TaPos(LastCursor.pTaCursor) = 1
    /\ LastCursor.eState = CURSOR_VALID
    /\ LastCursor.skipNext = 0

C36_Original ==
    [][ /\ (/\ sql_last'.op \in {"open", "open_ephemeral"}
            /\ sql_last'.rc = "SQLITE_OK")
           => /\ Cardinality(cursors'[sql_last'.c].curFlags
                             \cap (BTCF_TaCursor \cup BTCF_TEphemCursor)) = 1
              /\ cursors'[sql_last'.c].eState = CURSOR_INVALID
        /\ sql_last'.op \in {"first", "last", "seek", "next", "previous",
                             "insert", "delete", "count", "payload_fetch"}
           => Tagged(cursors[sql_last'.c]) ]_vars

-----------------------------------------------------------------------------
(* Reading the payload of the row under a cursor, btree.c:458-505.         *)

\* Width of the modelled u32.
U32Bits == 3

U32 == 0..(2^U32Bits - 1)

\* offset + amt on u32: the sum is reduced modulo 2^32 before it is
\* converted to uptr.
AddU32(a, b) == (a + b) % (2^U32Bits)

\* The payload of a row of sz bytes: byte i holds i.
PayloadBytes(sz) == [i \in 1..sz |-> i]

\* What a read leaves in pBuf: the bytes of the payload it copied and the
\* number of bytes it read beyond the end of the payload.
NoCopy == [done |-> FALSE, bytes |-> <<>>, beyond |-> 0]
Copied(bytes, beyond) == [done |-> TRUE, bytes |-> bytes, beyond |-> beyond]

PayloadRead(rc, copy, abort, ub) ==
    [rc |-> rc, copy |-> copy, abort |-> abort, ub |-> ub]

\* memcpy(pBuf, pPayload + offset, amt).  A read beyond the sz bytes of the
\* payload is undefined: the build either ends the process or copies what
\* lies behind the payload.
memcpy(payload, offset, amt) ==
    LET sz == Len(payload)
        within == IF offset >= sz THEN 0
                  ELSE IF offset + amt <= sz THEN amt ELSE sz - offset
    IN  IF offset + amt <= sz
        THEN { PayloadRead("SQLITE_OK",
                           Copied(SubSeq(payload, offset + 1, offset + amt), 0),
                           FALSE, FALSE) }
        ELSE { PayloadRead("SIGSEGV", NoCopy, TRUE, TRUE),
               PayloadRead("SQLITE_OK",
                           Copied(SubSeq(payload, offset + 1, offset + within),
                                  amt - within),
                           FALSE, TRUE) }

\* accessPayload, btree.c:458-479; sz is what tarantoolSqlite3PayloadFetch
\* stores through its second argument.
accessPayload(pCur, t, offset, amt) ==
    IF HasFlag(pCur, BTCF_TaCursor) \/ HasFlag(pCur, BTCF_TEphemCursor)
    THEN LET pPayload == t.payload
             sz == Len(pPayload)
         IN  IF AddU32(offset, amt) > sz
             THEN { PayloadRead("SQLITE_CORRUPT", NoCopy, FALSE, FALSE) }
             ELSE memcpy(pPayload, offset, amt)
    ELSE { PayloadRead(o.rc, NoCopy, o.abort, db.NDEBUG) :
              o \in unreachable(pCur, t, "SQLITE_TARANTOOL_ERROR") }

\* sqlite3BtreePayload, btree.c:498-505.
sqlite3BtreePayload(pCur, t, offset, amt) ==
    IF \/ AssertFails(pCur.eState = CURSOR_VALID)
       \/ AssertFails(HasFlag(pCur, BTCF_TaCursor)
                      \/ HasFlag(pCur, BTCF_TEphemCursor))
    THEN { PayloadRead("SIGABRT", NoCopy, TRUE, FALSE) }
    ELSE accessPayload(pCur, t, offset, amt)

\* A call of sqlite3BtreePayload.
BtreePayload(c, offset, amt) ==
    /\ ~db.aborted
    /\ \E out \in sqlite3BtreePayload(cursors[c], tarantool, offset, amt) :
          /\ db' = [db EXCEPT !.aborted = out.abort]
          /\ sql_last' = [op |-> "payload", c |-> c, offset |-> offset,
                          amt |-> amt, rc |-> out.rc, copy |-> out.copy,
                          ub |-> out.ub]
    /\ UNCHANGED <<btree, cursors, tarantool>>

\* A cursor of either backend in VALID on a row whose payload has any size
\* of the u32 range, in a build with or without assertions.
InitPayload ==
    /\ defs = <<>>
    /\ sequence_data_index = {}
    /\ last = Call("init", 0, 0, 0, 0, 0, "none", "none", FALSE)
    /\ history = <<>>
    /\ issued = NoneIssued
    /\ checked = NoCheck
    /\ encoded = NoTuple
    /\ snapshot = NoSnapshot
    /\ btree = [p \in Btrees |-> [inTrans |-> TRANS_READ]]
    /\ \E flag \in {BTCF_TaCursor, BTCF_TEphemCursor} :
          cursors = [c \in Cursors |->
                       [AllocatedCursor EXCEPT
                           !.pBtree = IF flag = BTCF_TaCursor THEN MainBtree
                                      ELSE EphemeralBtree,
                           !.pgnoRoot = 1, !.pKeyInfo = 0,
                           !.curFlags = flag, !.eState = CURSOR_VALID,
                           !.pTaCursor = TaCursor(1)]]
    /\ \E ndebug \in BOOLEAN :
          db = [open |-> TRUE, mdb |-> [pBt |-> MainBtree], nVdbeRead |-> 1,
                NDEBUG |-> ndebug, aborted |-> FALSE]
    /\ \E sz \in U32 :
          tarantool = [main |-> 1, ephemeral |-> 1, payload |-> PayloadBytes(sz)]
    /\ sql_last = SqlCall("init", 0, 0, 0, {}, "SQLITE_OK")

NextPayload ==
    /\ \E c \in Cursors, offset \in U32, amt \in U32 : BtreePayload(c, offset, amt)
    /\ UNCHANGED OutsideSql

SpecPayload == InitPayload /\ [][NextPayload]_vars

\* C32 as stated: for every offset, amt and payload size sz, the read
\* returns an error and copies nothing whenever offset + amt, as a sum of
\* integers, is larger than sz, and otherwise copies exactly the amt bytes
\* that start at offset.
C32_Original ==
    sql_last.op = "payload" =>
        LET sz == Len(tarantool.payload)
        IN  IF sql_last.offset + sql_last.amt > sz
            THEN /\ sql_last.rc \notin {"SQLITE_OK", "SIGSEGV"}
                 /\ ~sql_last.copy.done
                 /\ ~sql_last.ub
            ELSE /\ sql_last.rc = "SQLITE_OK"
                 /\ sql_last.copy =
                       Copied(SubSeq(tarantool.payload, sql_last.offset + 1,
                                     sql_last.offset + sql_last.amt), 0)

-----------------------------------------------------------------------------
(* Two cursors on the table of the main database.                          *)

SharedCursors == {1, 2}

\* sqlite3BtreeCursorHasMoved, btree.c:64-68: res is the value returned.
sqlite3BtreeCursorHasMoved(pCur, t) ==
    {Called("none", pCur, t, IF pCur.eState # CURSOR_VALID THEN 1 ELSE 0, <<>>)}

\* The connection inside a write transaction on the main database, with two
\* cursors allocated and zeroed.
InitShared ==
    /\ defs = <<>>
    /\ sequence_data_index = {}
    /\ last = Call("init", 0, 0, 0, 0, 0, "none", "none", FALSE)
    /\ history = <<>>
    /\ issued = NoneIssued
    /\ checked = NoCheck
    /\ encoded = NoTuple
    /\ snapshot = NoSnapshot
    /\ btree = [p \in Btrees |->
                  [inTrans |-> IF p = MainBtree THEN TRANS_WRITE ELSE TRANS_NONE]]
    /\ cursors = [c \in SharedCursors |-> AllocatedCursor]
    /\ \E ndebug \in BOOLEAN :
          db = [open |-> TRUE, mdb |-> [pBt |-> MainBtree], nVdbeRead |-> 1,
                NDEBUG |-> ndebug, aborted |-> FALSE]
    /\ \E n \in 0..MaxRows : tarantool = [main |-> n, ephemeral |-> 0]
    /\ sql_last = SqlCall("init", 0, 0, 0, {}, "SQLITE_OK")

NextShared ==
    \/ /\ \E c \in SharedCursors :
             /\ cursors[c] = sqlite3BtreeCursorZero(cursors[c])
             /\ BtreeCursor(MainBtree, 1, BTREE_WRCSR, 0, c)
       /\ UNCHANGED OutsideSql
    \/ /\ \E c \in SharedCursors :
             CursorCall("first", c, sqlite3BtreeFirst(cursors[c], tarantool))
       /\ UNCHANGED OutsideSql
    \/ /\ \E c \in SharedCursors :
             CursorCall("next", c, sqlite3BtreeNext(cursors[c], tarantool))
       /\ UNCHANGED OutsideSql
    \/ /\ \E c \in SharedCursors :
             CursorCall("insert", c, sqlite3BtreeInsert(cursors[c], tarantool, 0))
       /\ UNCHANGED OutsideSql
    \/ /\ \E c \in SharedCursors :
             CursorCall("delete", c, sqlite3BtreeDelete(cursors[c], tarantool))
       /\ UNCHANGED OutsideSql
    \/ /\ \E c \in SharedCursors :
             CursorCall("has_moved", c,
                        sqlite3BtreeCursorHasMoved(cursors[c], tarantool))
       /\ UNCHANGED OutsideSql

SpecShared == InitShared /\ [][NextShared]_vars

\* C31 as stated: when an insert or a delete made through one cursor changes
\* the table under another cursor that stands on a row of the same root,
\* the other cursor moves to REQUIRESEEK with its position saved.
C31_Original ==
    [][ \A b \in DOMAIN cursors :
          (/\ sql_last'.op \in {"insert", "delete"}
           /\ tarantool' # tarantool
           /\ b # sql_last'.c
           /\ cursors[b].pBtree = cursors[sql_last'.c].pBtree
           /\ cursors[b].pgnoRoot = cursors[sql_last'.c].pgnoRoot
           /\ cursors[b].eState \in {CURSOR_VALID, CURSOR_SKIPNEXT})
          => /\ cursors'[b].eState = CURSOR_REQUIRESEEK
             /\ cursors'[b].pKey # 0 ]_vars

=============================================================================
